---------------------------- MODULE Spec2Model ----------------------------
(***************************************************************************)
(* The Thymeleaf expression analyzers of thymelab-vscode.                  *)
(*                                                                         *)
(* Strings are TLA+ strings; positions are JavaScript positions (0-based,  *)
(* an end position is exclusive).  A regular expression of the source is   *)
(* modelled by an operator that matches it AT one position and returns the *)
(* end of the match with the captured groups; RegExp.prototype.exec, the   *)
(* `while ((m = re.exec(s)) !== null)` loops, String.prototype.split,      *)
(* replace and matchAll are modelled on top of that, lastIndex included.   *)
(***************************************************************************)
EXTENDS Integers, Sequences, FiniteSets, TLC

(***************************************************************************)
(* JavaScript strings                                                      *)
(***************************************************************************)

\* s[i]
At(s, i) == IF i >= 0 /\ i < Len(s) THEN SubSeq(s, i + 1, i + 1) ELSE ""

\* s.substring(a, b) for 0 <= a
Substring(s, a, b) ==
    IF b > Len(s) THEN SubSeq(s, a + 1, Len(s)) ELSE SubSeq(s, a + 1, b)

\* s.substring(a)
From(s, a) == SubSeq(s, a + 1, Len(s))

\* s.startsWith(p, i)
StartsWithAt(s, p, i) == i + Len(p) <= Len(s) /\ SubSeq(s, i + 1, i + Len(p)) = p

StartsWith(s, p) == StartsWithAt(s, p, 0)

EndsWith(s, p) == Len(p) <= Len(s) /\ SubSeq(s, Len(s) - Len(p) + 1, Len(s)) = p

\* s.indexOf(p, from): -1 when p does not occur at or after from
RECURSIVE IndexOfFrom(_, _, _)
IndexOfFrom(s, p, from) ==
    IF from + Len(p) > Len(s) THEN -1
    ELSE IF StartsWithAt(s, p, from) THEN from
    ELSE IndexOfFrom(s, p, from + 1)

IndexOf(s, p) == IndexOfFrom(s, p, 0)

\* s.includes(p)
Includes(s, p) == IndexOf(s, p) >= 0

LowerCase == "abcdefghijklmnopqrstuvwxyz"
UpperCase == "ABCDEFGHIJKLMNOPQRSTUVWXYZ"
DigitChars == "0123456789"

CharsOf(s) == {SubSeq(s, i, i) : i \in 1..Len(s)}

Lower == CharsOf(LowerCase)
Upper == CharsOf(UpperCase)
Digit == CharsOf(DigitChars)

\* \s of a regular expression, and what String.prototype.trim removes
Space == {" ", "\t", "\n", "\r", "\f"}

\* what `.` does not match (no s flag)
LineTerminator == {"\n", "\r"}

\* [a-zA-Z_$] and [a-zA-Z0-9_$]
IdStart == Lower \cup Upper \cup {"_", "$"}
IdChar == IdStart \cup Digit

\* \w
WordChar == Lower \cup Upper \cup Digit \cup {"_"}

\* c.toLowerCase() of one character
LowerOfChar(c) ==
    IF c \in Upper
    THEN LET i == CHOOSE k \in 1..26 : SubSeq(UpperCase, k, k) = c
         IN SubSeq(LowerCase, i, i)
    ELSE c

\* s.toLowerCase()
RECURSIVE ToLowerCase(_)
ToLowerCase(s) ==
    IF s = "" THEN ""
    ELSE LowerOfChar(SubSeq(s, 1, 1)) \o ToLowerCase(SubSeq(s, 2, Len(s)))

\* the end of the longest run of characters of `set` that starts at i
RECURSIVE SkipWhile(_, _, _)
SkipWhile(s, set, i) ==
    IF i < Len(s) /\ At(s, i) \in set THEN SkipWhile(s, set, i + 1) ELSE i

\* the end of the longest run of characters not in `set` that starts at i
RECURSIVE SkipUntil(_, _, _)
SkipUntil(s, set, i) ==
    IF i < Len(s) /\ At(s, i) \notin set THEN SkipUntil(s, set, i + 1) ELSE i

\* the start of the run of characters of `set` that ends at i (exclusive)
RECURSIVE SkipBack(_, _, _, _)
SkipBack(s, set, i, low) ==
    IF i > low /\ At(s, i - 1) \in set THEN SkipBack(s, set, i - 1, low) ELSE i

\* s.trim()
Trim(s) ==
    LET a == SkipWhile(s, Space, 0)
        b == SkipBack(s, Space, Len(s), a)
    IN Substring(s, a, b)

\* s.split(sep) for a non-empty string sep
RECURSIVE SplitStr(_, _)
SplitStr(s, sep) ==
    LET i == IndexOf(s, sep)
    IN IF i < 0 THEN <<s>>
       ELSE <<Substring(s, 0, i)>> \o SplitStr(From(s, i + Len(sep)), sep)

\* s.replace(p, "") for a string p: the first occurrence only
RemoveFirst(s, p) ==
    LET i == IndexOf(s, p)
    IN IF i < 0 THEN s ELSE Substring(s, 0, i) \o From(s, i + Len(p))

\* A value that may be undefined (a missing array element, an unmatched
\* group): <<>> is undefined, <<v>> is the string v.
Undefined == <<>>
Def(v) == <<v>>

\* arr[i] of a JavaScript array (0-based)
Elem(arr, i) == IF i < Len(arr) THEN <<arr[i + 1]>> ELSE Undefined

\* arr.map(p => p.trim())
MapTrim(arr) == [i \in 1..Len(arr) |-> Trim(arr[i])]

\* the truthiness of a string or undefined
Truthy(o) == o /= Undefined /\ o[1] /= ""

(***************************************************************************)
(* Regular expressions                                                     *)
(***************************************************************************)

\* A pattern matched at one position: the end of the match and the groups,
\* or Fail.
Fail == [end |-> -1, g |-> <<>>]
Hit(e, groups) == [end |-> e, g |-> groups]

\* the result of exec: where the match starts and ends, and its groups
NoMatch == [ix |-> -1, end |-> -1, g |-> <<>>]

\* the leftmost match of the pattern M in s that starts at or after i
RECURSIVE Search(_, _, _)
Search(M(_, _), s, i) ==
    IF i >= Len(s) THEN NoMatch
    ELSE LET r == M(s, i)
         IN IF r.end >= 0 THEN [ix |-> i, end |-> r.end, g |-> r.g]
            ELSE Search(M, s, i + 1)

\* re.exec(s) of a global re whose lastIndex is li: the match and the
\* lastIndex exec leaves: the end of the match, or 0 when there is none
Exec(M(_, _), s, li) ==
    LET m == Search(M, s, li)
    IN [m |-> m, lastIndex |-> IF m.ix < 0 THEN 0 ELSE m.end]

\* if ((m = re.exec(s)) !== null) { ... }: the pattern tried once
ExecOnce(M(_, _), s, li) ==
    LET r == Exec(M, s, li)
    IN IF r.m.ix < 0 THEN [ms |-> <<>>, lastIndex |-> r.lastIndex]
       ELSE [ms |-> <<r.m>>, lastIndex |-> r.lastIndex]

\* while ((m = re.exec(s)) !== null) { ... }: the matches the loop body
\* sees, and the lastIndex the loop leaves
RECURSIVE ExecLoop(_, _, _)
ExecLoop(M(_, _), s, li) ==
    LET r == Exec(M, s, li)
    IN IF r.m.ix < 0 THEN [ms |-> <<>>, lastIndex |-> r.lastIndex]
       ELSE LET rest == ExecLoop(M, s, r.lastIndex)
            IN [ms |-> <<r.m>> \o rest.ms, lastIndex |-> rest.lastIndex]

\* the loop over a pattern written as a literal in the function body: a
\* fresh RegExp object, lastIndex 0
MatchesOf(M(_, _), s) == ExecLoop(M, s, 0).ms

\* m[0]
Whole(s, m) == Substring(s, m.ix, m.end)

\* the end of a lazy (.*?) that starts at b and is followed by the literal
\* lit; -1 when a line terminator comes first (dotAll false) or lit is absent
LazyUntil(s, b, lit, dotAll) ==
    LET e == IndexOfFrom(s, lit, b)
    IN IF e < 0 THEN -1
       ELSE IF ~dotAll /\ SkipUntil(s, LineTerminator, b) < e THEN -1
       ELSE e

\* open([^}]+)} for open one of ${ #{ @{ *{ ~{
BracedAt(open, s, i) ==
    IF ~StartsWithAt(s, open, i) THEN Fail
    ELSE LET b == i + Len(open)
             e == SkipUntil(s, {"}"}, b)
         IN IF e > b /\ At(s, e) = "}"
            THEN Hit(e + 1, <<Substring(s, b, e)>>) ELSE Fail

VARIABLE_REGEX(s, i) == BracedAt("${", s, i)
MESSAGE_REGEX(s, i) == BracedAt("#{", s, i)
LINK_REGEX(s, i) == BracedAt("@{", s, i)
SELECTION_REGEX(s, i) == BracedAt("*{", s, i)

\* ([^c]+)c([^c]+)
TwoRunsAt(c, s, i) ==
    LET e == SkipUntil(s, {c}, i)
        f == SkipUntil(s, {c}, e + 1)
    IN IF e > i /\ At(s, e) = c /\ f > e + 1
       THEN Hit(f, <<Substring(s, i, e), Substring(s, e + 1, f)>>) ELSE Fail

MARKUP_SELECTOR_REGEX(s, i) == TwoRunsAt(">", s, i)
JQUERY_SELECTOR_REGEX(s, i) == TwoRunsAt(":", s, i)

\* open([^c]+)close, c the first character of close
RunBetweenAt(open, c, close, s, i) ==
    IF ~StartsWithAt(s, open, i) THEN Fail
    ELSE LET b == i + Len(open)
             e == SkipUntil(s, {c}, b)
         IN IF e > b /\ StartsWithAt(s, close, e)
            THEN Hit(e + Len(close), <<Substring(s, b, e)>>) ELSE Fail

ATTRIBUTE_SELECTOR_REGEX(s, i) == RunBetweenAt("[", "]", "]", s, i)
POSITION_SELECTOR_REGEX(s, i) == RunBetweenAt(":nth-child(", ")", ")", s, i)

\* #([^#]+)
REFERENCE_SELECTOR_REGEX(s, i) ==
    LET e == SkipUntil(s, {"#"}, i + 1)
    IN IF At(s, i) = "#" /\ e > i + 1
       THEN Hit(e, <<Substring(s, i + 1, e)>>) ELSE Fail

\* open(.*?)close with the s flag
LazyBetweenAt(open, close, s, i) ==
    IF ~StartsWithAt(s, open, i) THEN Fail
    ELSE LET b == i + Len(open)
             e == LazyUntil(s, b, close, TRUE)
         IN IF e >= 0 THEN Hit(e + Len(close), <<Substring(s, b, e)>>) ELSE Fail

HTML_COMMENT_REGEX(s, i) == LazyBetweenAt("<!--", "-->", s, i)
PARSER_COMMENT_REGEX(s, i) == LazyBetweenAt("/*[", "]*/", s, i)
PROTOTYPE_COMMENT_REGEX(s, i) == LazyBetweenAt("/*[", "]*/", s, i)

\* \\(\${[^}]+}|#{[^}]+}|@{[^}]+}|\*{[^}]+})
ESCAPED_EXPRESSION_REGEX(s, i) ==
    IF At(s, i) /= "\\" THEN Fail
    ELSE LET opens == {o \in {"${", "#{", "@{", "*{"} :
                          BracedAt(o, s, i + 1).end >= 0}
         IN IF opens = {} THEN Fail
            ELSE LET o == CHOOSE x \in opens : TRUE
                 IN Hit(BracedAt(o, s, i + 1).end,
                        <<Substring(s, i + 1, BracedAt(o, s, i + 1).end)>>)

\* s.replace(re, '') for a global re: every match, left to right, removed
RECURSIVE RemoveMatches(_, _, _)
RemoveMatches(s, ms, from) ==
    IF ms = <<>> THEN From(s, from)
    ELSE Substring(s, from, ms[1].ix) \o RemoveMatches(s, Tail(ms), ms[1].end)

\* th:name="([^"]+)"
AttrAt(name, s, i) == RunBetweenAt(name \o "=\"", "\"", "\"", s, i)

\* th:object="\${([^}]+)}"
ObjectRegex(s, i) == RunBetweenAt("th:object=\"${", "}", "}\"", s, i)

\* \[\[([^\]]+)\]\]
InlineRegex(s, i) == RunBetweenAt("[[", "]", "]]", s, i)

\* an identifier [a-zA-Z_$][a-zA-Z0-9_$]* at i: its end, or -1
IdEnd(s, i) == IF At(s, i) \in IdStart THEN SkipWhile(s, IdChar, i + 1) ELSE -1

\* the end of (?:\.[a-zA-Z_$][a-zA-Z0-9_$]*)* at i
RECURSIVE DottedEnd(_, _)
DottedEnd(s, i) ==
    IF At(s, i) = "." /\ IdEnd(s, i + 1) >= 0
    THEN DottedEnd(s, IdEnd(s, i + 1)) ELSE i

\* ([a-zA-Z_$][a-zA-Z0-9_$]*(?:\.[a-zA-Z_$][a-zA-Z0-9_$]*)*) at i, or -1
ChainEnd(s, i) == IF IdEnd(s, i) >= 0 THEN DottedEnd(s, IdEnd(s, i)) ELSE -1

PropertyRegex(s, i) ==
    IF ChainEnd(s, i) >= 0
    THEN Hit(ChainEnd(s, i), <<Substring(s, i, ChainEnd(s, i))>>) ELSE Fail

\* chain\s*\((.*?)\)
MethodCallRegex(s, i) ==
    LET c == ChainEnd(s, i)
        p == SkipWhile(s, Space, c)
        e == LazyUntil(s, p + 1, ")", FALSE)
    IN IF c >= 0 /\ At(s, p) = "(" /\ e >= 0
       THEN Hit(e + 1, <<Substring(s, i, c), Substring(s, p + 1, e)>>)
       ELSE Fail

\* the first of `words` that s has at i, in the order of the alternation
FirstWordAt(words, s, i) ==
    LET ks == {k \in 1..Len(words) : StartsWithAt(s, words[k], i)}
    IN IF ks = {} THEN ""
       ELSE words[CHOOSE k \in ks : \A j \in ks : k <= j]

\* (hasRole|hasAnyRole|hasAuthority|hasAnyAuthority)\s*\((.*?)\)
SecurityFuncRegex(s, i) ==
    LET w == FirstWordAt(
                 <<"hasRole", "hasAnyRole", "hasAuthority", "hasAnyAuthority">>,
                  s, i)
        p == SkipWhile(s, Space, i + Len(w))
        e == LazyUntil(s, p + 1, ")", FALSE)
    IN IF w /= "" /\ At(s, p) = "(" /\ e >= 0
       THEN Hit(e + 1, <<w, Substring(s, p + 1, e)>>) ELSE Fail

\* \?{1,2}\[(.*?)\]
SelectionRegex(s, i) ==
    LET q == IF At(s, i + 1) = "?" THEN i + 2 ELSE i + 1
        e == LazyUntil(s, q + 1, "]", FALSE)
    IN IF At(s, i) = "?" /\ At(s, q) = "[" /\ e >= 0
       THEN Hit(e + 1, <<Substring(s, q + 1, e)>>) ELSE Fail

\* #authentication\.principal(?:\.(\w+))? : the group is undefined when the
\* optional part does not match
PrincipalRegex(s, i) ==
    LET lit == "#authentication.principal"
        b == i + Len(lit)
        e == SkipWhile(s, WordChar, b + 1)
    IN IF ~StartsWithAt(s, lit, i) THEN Fail
       ELSE IF At(s, b) = "." /\ e > b + 1
            THEN Hit(e, <<Def(Substring(s, b + 1, e))>>)
            ELSE Hit(b, <<Undefined>>)

\* s.split(re) for a pattern that matches no empty string: the pieces
\* between the matches, each followed by the groups of the match after it
RECURSIVE SplitRegex(_, _, _, _)
SplitRegex(M(_, _), s, p, q) ==
    IF q >= Len(s) THEN <<From(s, p)>>
    ELSE LET r == M(s, q)
         IN IF r.end < 0 THEN SplitRegex(M, s, p, q + 1)
            ELSE <<Substring(s, p, q)>> \o r.g \o SplitRegex(M, s, r.end, r.end)

\* xs.flatMap(F)
RECURSIVE FlatMap(_, _)
FlatMap(F(_), xs) ==
    IF xs = <<>> THEN <<>> ELSE F(xs[1]) \o FlatMap(F, Tail(xs))

\* \s+
SpaceRun(s, i) ==
    IF SkipWhile(s, Space, i) > i THEN Hit(SkipWhile(s, Space, i), <<>>) ELSE Fail

\* \s+(and|or)\s+
LogicalSeparator(s, i) ==
    LET a == SkipWhile(s, Space, i)
        w == FirstWordAt(<<"and", "or">>, s, a)
        b == SkipWhile(s, Space, a + Len(w))
    IN IF a > i /\ w /= "" /\ b > a + Len(w) THEN Hit(b, <<w>>) ELSE Fail

\* \s*(?:==|!=|>=|<=|>|<)\s*
ComparisonSeparator(s, i) ==
    LET a == SkipWhile(s, Space, i)
        op == FirstWordAt(<<"==", "!=", ">=", "<=", ">", "<">>, s, a)
    IN IF op /= "" THEN Hit(SkipWhile(s, Space, a + Len(op)), <<>>) ELSE Fail

\* (.*?)\s*\?\s*(.*?)\s*:\s*(.*) at i, the `?` sought at or after q0
RECURSIVE TernaryTry(_, _, _)
TernaryTry(s, i, q0) ==
    LET q == IndexOfFrom(s, "?", q0)
        k == SkipBack(s, Space, q, i)
        a == SkipWhile(s, Space, q + 1)
        c == IndexOfFrom(s, ":", a)
        m == SkipBack(s, Space, c, a)
        f == SkipWhile(s, Space, c + 1)
        e == SkipUntil(s, LineTerminator, f)
    IN IF q < 0 THEN Fail
       ELSE IF SkipUntil(s, LineTerminator, i) < k THEN Fail
       ELSE IF c >= 0 /\ SkipUntil(s, LineTerminator, a) >= m
            THEN Hit(e, <<Substring(s, i, k), Substring(s, a, m), Substring(s, f, e)>>)
            ELSE TernaryTry(s, i, q + 1)

TernaryRegex(s, i) == TernaryTry(s, i, i)

\* (.*?)\s*\?:\s*(.*)
ElvisRegex(s, i) ==
    LET q == IndexOfFrom(s, "?:", i)
        k == SkipBack(s, Space, q, i)
        f == SkipWhile(s, Space, q + 2)
        e == SkipUntil(s, LineTerminator, f)
    IN IF q < 0 \/ SkipUntil(s, LineTerminator, i) < k THEN Fail
       ELSE Hit(e, <<Substring(s, i, k), Substring(s, f, e)>>)

(***************************************************************************)
(* ThymeleafVariableParser: the classifiers                                *)
(***************************************************************************)

isOperator(word) ==
    word \in {"+", "-", "*", "/", "%",
              "==", "!=", ">", "<", ">=", "<=",
              "and", "or", "not",
              "&&", "||", "!",
              "?", ":", "?:",
              ".", ",", "(", ")", "[", "]",
              "=", "+=", "-=", "*=", "/=", "%="}

\* the set the word is looked up in, as written in the source
reservedWords ==
    {"and", "or", "not", "gt", "ge", "lt", "le", "eq", "ne",
     "true", "false", "null", "instanceof", "new", "return",
     "this", "matches", "contains", "startsWith", "endsWith",
     "size", "length", "hasRole", "hasAnyRole", "hasAuthority",
     "hasAnyAuthority", "principal", "authentication", "permitAll",
     "denyAll", "isAnonymous", "isAuthenticated", "isFullyAuthenticated",
     "hasIpAddress", "hasAnyPermission"}

\* reservedWords.has(word.toLowerCase())
isReservedWord(word) == ToLowerCase(word) \in reservedWords

securityFunctions ==
    {"hasRole", "hasAnyRole", "hasAuthority", "hasAnyAuthority",
     "principal", "authentication", "permitAll", "denyAll",
     "isAnonymous", "isAuthenticated", "isFullyAuthenticated",
     "hasIpAddress", "hasAnyPermission"}

isSecurityFunction(word) == word \in securityFunctions

\* /^(['"]).*\1$/.test(value.trim())
isStringLiteral(value) ==
    LET t == Trim(value)
    IN /\ Len(t) >= 2
       /\ At(t, 0) \in {"'", "\""}
       /\ At(t, Len(t) - 1) = At(t, 0)
       /\ SkipUntil(t, LineTerminator, 1) >= Len(t) - 1

\* /^-?\d*\.?\d+$/.test(value.trim())
isNumericLiteral(value) ==
    LET t == Trim(value)
        a == IF At(t, 0) = "-" THEN 1 ELSE 0
        b == SkipWhile(t, Digit, a)
        c == IF At(t, b) = "." THEN b + 1 ELSE b
        d == SkipWhile(t, Digit, c)
    IN d = Len(t) /\ (d > c \/ (c = b /\ b > a))

\* splitParameters: the loop over the characters of params
RECURSIVE splitLoop(_, _, _, _, _, _)
splitLoop(params, i, currentParam, parenCount, inQuote, quoteChar) ==
    LET char == At(params, i)
        pushed == IF Trim(currentParam) /= "" THEN <<Trim(currentParam)>> ELSE <<>>
    IN IF i >= Len(params) THEN pushed
       ELSE IF char \in {"'", "\""} /\ At(params, i - 1) /= "\\"
       THEN IF ~inQuote
            THEN splitLoop(params, i + 1, currentParam \o char, parenCount, TRUE, char)
            ELSE IF char = quoteChar
            THEN splitLoop(params, i + 1, currentParam \o char, parenCount, FALSE, quoteChar)
            ELSE splitLoop(params, i + 1, currentParam \o char, parenCount, inQuote, quoteChar)
       ELSE IF char = "(" /\ ~inQuote
       THEN splitLoop(params, i + 1, currentParam \o char, parenCount + 1, inQuote, quoteChar)
       ELSE IF char = ")" /\ ~inQuote
       THEN splitLoop(params, i + 1, currentParam \o char, parenCount - 1, inQuote, quoteChar)
       ELSE IF char = "," /\ parenCount = 0 /\ ~inQuote
       THEN pushed \o splitLoop(params, i + 1, "", parenCount, inQuote, quoteChar)
       ELSE splitLoop(params, i + 1, currentParam \o char, parenCount, inQuote, quoteChar)

splitParameters(params) == splitLoop(params, 0, "", 0, FALSE, "")

\* let currentPath = ''; for (const part of parts) { if (keep(part)) {
\*   currentPath = currentPath ? `${currentPath}.${part}` : part;
\*   matches.push([expr, currentPath]); } }
RECURSIVE pathLoop(_, _, _, _)
pathLoop(expr, parts, currentPath, skipReserved) ==
    IF parts = <<>> THEN <<>>
    ELSE IF skipReserved /\ isReservedWord(parts[1])
    THEN pathLoop(expr, Tail(parts), currentPath, skipReserved)
    ELSE LET next == IF currentPath /= "" THEN currentPath \o "." \o parts[1]
                     ELSE parts[1]
         IN <<<<expr, next>>>> \o pathLoop(expr, Tail(parts), next, skipReserved)

\* the key of the duplicate filter: `${expr}:${variable}`
matchKey(pair) == pair[1] \o ":" \o pair[2]

\* matches.filter(([expr, variable]) => { ... seen ... })
RECURSIVE filterSeen(_, _)
filterSeen(matches, seen) ==
    IF matches = <<>> THEN <<>>
    ELSE IF matchKey(matches[1]) \in seen THEN filterSeen(Tail(matches), seen)
    ELSE <<matches[1]>> \o filterSeen(Tail(matches), seen \cup {matchKey(matches[1])})

removeDuplicates(matches) == filterSeen(matches, {})

(***************************************************************************)
(* ThymeleafVariableParser.extractVariablesFromExpression                  *)
(***************************************************************************)

RECURSIVE extractVariablesFromExpression(_)

\* for (const param of paramList) if (!isStringLiteral(param) &&
\*   !isNumericLiteral(param)) matches.push(...extract(param.trim()))
extractFromParamList(paramList) ==
    FlatMap(LAMBDA param :
                IF ~isStringLiteral(param) /\ ~isNumericLiteral(param)
                THEN extractVariablesFromExpression(Def(Trim(param)))
                ELSE <<>>,
            paramList)

\* "Handle security expressions first"
extractAuthentication(expression, fullExpression) ==
    IF ~Includes(expression, "#authentication") THEN <<>>
    ELSE FlatMap(LAMBDA m :
                     <<<<fullExpression, "principal">>>> \o
                     (IF Truthy(m.g[1])
                      THEN <<<<fullExpression, "principal." \o m.g[1][1]>>>>
                      ELSE <<>>),
                 MatchesOf(PrincipalRegex, expression))

\* "Handle security function calls"
extractSecurityFunctions(expression) ==
    FlatMap(LAMBDA m :
                IF m.g[2] /= "" THEN extractFromParamList(splitParameters(m.g[2]))
                ELSE <<>>,
            MatchesOf(SecurityFuncRegex, expression))

\* the property paths of one word of a selection condition
selectionPartPaths(part, fullExpression) ==
    IF isReservedWord(part) \/ isOperator(part) \/ isStringLiteral(part)
       \/ isNumericLiteral(part)
    THEN <<>>
    ELSE FlatMap(LAMBDA m :
                     LET propertyPath == m.g[1]
                         first == SplitStr(propertyPath, ".")[1]
                     IN IF ~StartsWith(propertyPath, "#") /\ ~isReservedWord(first)
                           /\ ~isSecurityFunction(first)
                        THEN <<<<fullExpression, propertyPath>>>> ELSE <<>>,
                 MatchesOf(PropertyRegex, part))

\* "Handle selection expressions"
extractSelections(expression, fullExpression) ==
    FlatMap(LAMBDA m :
                FlatMap(LAMBDA part : selectionPartPaths(part, fullExpression),
                        SplitRegex(SpaceRun, m.g[1], 0, 0)),
            MatchesOf(SelectionRegex, expression))

\* "Handle method calls with parameters"
extractMethodCalls(expression, fullExpression) ==
    FlatMap(LAMBDA m :
                LET parts == SplitStr(m.g[1], ".")
                    params == m.g[2]
                IN IF ~isReservedWord(parts[1]) /\ ~isSecurityFunction(parts[1])
                   THEN pathLoop(fullExpression, parts, "", TRUE) \o
                        (IF params /= ""
                         THEN extractFromParamList(splitParameters(params))
                         ELSE <<>>)
                   ELSE <<>>,
            MatchesOf(MethodCallRegex, expression))

\* the property chains of one side of a comparison; the variant pushes each
\* chain whole, as the loop over a selection condition does
comparisonPartPaths_whole(compPart, fullExpression) ==
    IF isReservedWord(compPart) \/ isOperator(compPart) \/ isStringLiteral(compPart)
       \/ isNumericLiteral(compPart)
    THEN <<>>
    ELSE FlatMap(LAMBDA m :
                     LET propertyPath == m.g[1]
                         parts == SplitStr(propertyPath, ".")
                     IN IF ~StartsWith(propertyPath, "#") /\ ~isReservedWord(parts[1])
                           /\ ~isSecurityFunction(parts[1])
                        THEN <<<<fullExpression, propertyPath>>>> ELSE <<>>,
                 MatchesOf(PropertyRegex, compPart))
comparisonPartPaths(compPart, fullExpression) ==
    IF isReservedWord(compPart) \/ isOperator(compPart) \/ isStringLiteral(compPart)
       \/ isNumericLiteral(compPart)
    THEN <<>>
    ELSE FlatMap(LAMBDA m :
                     LET propertyPath == m.g[1]
                         parts == SplitStr(propertyPath, ".")
                     IN IF ~StartsWith(propertyPath, "#") /\ ~isReservedWord(parts[1])
                           /\ ~isSecurityFunction(parts[1])
                        THEN pathLoop(fullExpression, parts, "", TRUE) ELSE <<>>,
                 MatchesOf(PropertyRegex, compPart))

\* "Handle logical expressions (and, or, not)"
extractLogical(expression, fullExpression) ==
    FlatMap(LAMBDA part :
                IF isReservedWord(part) \/ isOperator(part) THEN <<>>
                ELSE FlatMap(LAMBDA compPart :
                                 comparisonPartPaths(compPart, fullExpression),
                             SplitRegex(ComparisonSeparator, part, 0, 0)),
            SplitRegex(LogicalSeparator, expression, 0, 0))

\* "Handle ternary expressions"
extractTernary(expression) ==
    LET ternMatch == Search(TernaryRegex, expression, 0)
    IN IF ternMatch.ix < 0 THEN <<>>
       ELSE extractVariablesFromExpression(Def(ternMatch.g[1])) \o
            extractVariablesFromExpression(Def(ternMatch.g[2])) \o
            extractVariablesFromExpression(Def(ternMatch.g[3]))

\* "Handle Elvis operator"
extractElvis(expression) ==
    LET elvisMatch == Search(ElvisRegex, expression, 0)
    IN IF elvisMatch.ix < 0 THEN <<>>
       ELSE extractVariablesFromExpression(Def(elvisMatch.g[1])) \o
            extractVariablesFromExpression(Def(elvisMatch.g[2]))

\* The argument may be undefined (a destructured array element).
extractVariablesFromExpression(arg) ==
    IF ~Truthy(arg) \/ Trim(arg[1]) = "" THEN <<>>
    ELSE LET expression == arg[1]
             fullExpression == "${" \o expression \o "}"
         IN removeDuplicates(
                extractAuthentication(expression, fullExpression) \o
                extractSecurityFunctions(expression) \o
                extractSelections(expression, fullExpression) \o
                extractMethodCalls(expression, fullExpression) \o
                extractLogical(expression, fullExpression) \o
                extractTernary(expression) \o
                extractElvis(expression))

(***************************************************************************)
(* The calls extractVariablesFromExpression makes of itself                *)
(***************************************************************************)

\* this.extractVariablesFromExpression(e), made at a site of the function
Frame(e, site) == [expression |-> e, site |-> site]

\* for (const param of paramList) if (!isStringLiteral(param) &&
\*   !isNumericLiteral(param)) this.extractVariablesFromExpression(param.trim())
paramCalls(paramList, site) ==
    FlatMap(LAMBDA param :
                IF ~isStringLiteral(param) /\ ~isNumericLiteral(param)
                THEN <<Frame(Trim(param), site)>>
                ELSE <<>>,
            paramList)

\* the calls of "Handle security function calls"
securityCalls(expression) ==
    FlatMap(LAMBDA m :
                IF m.g[2] /= "" THEN paramCalls(splitParameters(m.g[2]), "security")
                ELSE <<>>,
            MatchesOf(SecurityFuncRegex, expression))

\* the calls of "Handle method calls with parameters"
methodCalls(expression) ==
    FlatMap(LAMBDA m :
                LET parts == SplitStr(m.g[1], ".")
                    params == m.g[2]
                IN IF ~isReservedWord(parts[1]) /\ ~isSecurityFunction(parts[1])
                      /\ params /= ""
                   THEN paramCalls(splitParameters(params), "method")
                   ELSE <<>>,
            MatchesOf(MethodCallRegex, expression))

\* the calls of "Handle ternary expressions"
ternaryCalls(expression) ==
    LET ternMatch == Search(TernaryRegex, expression, 0)
    IN IF ternMatch.ix < 0 THEN <<>>
       ELSE <<Frame(ternMatch.g[1], "condition"), Frame(ternMatch.g[2], "truePart"),
              Frame(ternMatch.g[3], "falsePart")>>

\* the calls of "Handle Elvis operator"; the variant passes the expression
\* on whole where the code passes what stands left of the operator
elvisCalls_whole(expression) ==
    LET elvisMatch == Search(ElvisRegex, expression, 0)
    IN IF elvisMatch.ix < 0 THEN <<>>
       ELSE <<Frame(expression, "leftPart"), Frame(elvisMatch.g[2], "rightPart")>>
elvisCalls(expression) ==
    LET elvisMatch == Search(ElvisRegex, expression, 0)
    IN IF elvisMatch.ix < 0 THEN <<>>
       ELSE <<Frame(elvisMatch.g[1], "leftPart"), Frame(elvisMatch.g[2], "rightPart")>>

\* the calls one run of extractVariablesFromExpression(expression) makes of
\* itself, in order; none when the expression is empty or blank
recursiveCalls(expression) ==
    IF expression = "" \/ Trim(expression) = "" THEN <<>>
    ELSE securityCalls(expression) \o methodCalls(expression) \o
         ternaryCalls(expression) \o elvisCalls(expression)

(***************************************************************************)
(* ThymeleafVariableParser.findAllVariableMatches                          *)
(*                                                                         *)
(* Every loop of the method pushes, in order, either a literal             *)
(* [sourceText, variablePath] pair or the pairs that                       *)
(* extractVariablesFromExpression returns for an expression.  The loop     *)
(* bodies below list these pushes as they stand in the code; pushed()      *)
(* carries them out, in the same order.                                    *)
(***************************************************************************)

\* matches.push([a, b])
Pair(a, b) == [kind |-> "pair", a |-> a, b |-> b]

\* matches.push(...this.extractVariablesFromExpression(e))
Expr(e) == [kind |-> "expr", a |-> e, b |-> ""]

\* the same for an element of a destructured array, which may be undefined:
\* extractVariablesFromExpression(undefined) returns []
ExprOpt(o) == IF Truthy(o) THEN <<Expr(o[1])>> ELSE <<>>

\* vars.forEach(([, v]) => results.push([fullMatch, v])), vars being
\* extractVariablesFromExpression(e)
Retag(fullMatch, e) == [kind |-> "retag", a |-> e, b |-> fullMatch]

retagged(it, vs) ==
    IF it.kind = "expr" THEN vs
    ELSE [k \in 1..Len(vs) |-> <<it.b, vs[k][2]>>]

pushed(items) ==
    FlatMap(LAMBDA it :
                IF it.kind = "pair" THEN <<<<it.a, it.b>>>>
                ELSE retagged(it, extractVariablesFromExpression(Def(it.a))),
            items)

\* the first match of /\${([^}]+)}/ (not global) in param
extractVariablesFromParameters(params) ==
    FlatMap(LAMBDA param :
                IF Includes(param, "${")
                THEN LET varMatch == Search(VARIABLE_REGEX, param, 0)
                     IN IF varMatch.ix >= 0
                        THEN <<Expr(varMatch.g[1])>>
                        ELSE <<>>
                ELSE IF ~isStringLiteral(param) /\ ~isNumericLiteral(param)
                THEN <<Expr(param)>>
                ELSE <<>>,
            splitParameters(params))

\* text.replace(ESCAPED_EXPRESSION_REGEX, '')
preprocessText(text) ==
    RemoveMatches(text, MatchesOf(ESCAPED_EXPRESSION_REGEX, text), 0)

\* "Process ${...} expressions": the body of the loop
variableBody(s, m) == <<Expr(m.g[1])>>

\* "Process #{...} expressions"
messageBody(s, m) ==
    LET expression == m.g[1]
        split == SplitStr(expression, "(")
        params == split[2]
    IN IF Includes(expression, "(")
       THEN <<Pair(Whole(s, m), Trim(split[1]))>> \o
            (IF params /= ""
             THEN extractVariablesFromParameters(RemoveFirst(params, ")"))
             ELSE <<>>)
       ELSE <<Pair(Whole(s, m), Trim(expression))>>

\* for (const pair of paramPairs) if (pair.includes('=')) { const [, value] =
\*   pair.split('='); push(...extract(value.trim())) } [else push(...extract(pair.trim()))]
pairValues(cleanParams, bareToo) ==
    FlatMap(LAMBDA pair :
                IF Includes(pair, "=")
                THEN <<Expr(Trim(SplitStr(pair, "=")[2]))>>
                ELSE IF bareToo THEN <<Expr(Trim(pair))>>
                ELSE <<>>,
            SplitStr(cleanParams, ","))

\* const [path, params] = expression.split('('); ... : shared by the link
\* loop and by the URL and fragment loops of processSelectors
pathAndParams(expression, bareToo) ==
    LET split == SplitStr(expression, "(")
        path == split[1]
        params == split[2]
    IN (IF Includes(path, "${") THEN <<Expr(path)>> ELSE <<>>) \o
       (IF params /= "" THEN pairValues(RemoveFirst(params, ")"), bareToo) ELSE <<>>)

\* "Process @{...} expressions"
linkBody(s, m) ==
    LET expression == m.g[1]
    IN IF Includes(expression, "(") THEN pathAndParams(expression, FALSE)
       ELSE FlatMap(LAMBDA part :
                        IF Includes(part, "${") THEN <<Expr(part)>> ELSE <<>>,
                    SplitStr(expression, "/"))

\* matches.push([a, b]) for each pair of a sequence of pairs
Pairs(ps) == [k \in 1..Len(ps) |-> Pair(ps[k][1], ps[k][2])]

\* "Process *{...} expressions"
selectionBody(s, m) ==
    LET expression == m.g[1]
        parts == SplitStr(expression, ".")
    IN <<Pair(Whole(s, m), Trim(expression))>> \o
       (IF Len(parts) > 1 THEN Pairs(pathLoop(Whole(s, m), parts, "", FALSE))
        ELSE <<>>)

\* "Process th:each expressions"
eachBody(s, m) ==
    LET parts == SplitStr(m.g[1], ":")
        iterVarParts == MapTrim(SplitStr(parts[1], ","))
        collectionExpr == Trim(parts[2])
        collection == Substring(collectionExpr, 2, Len(collectionExpr) - 1)
        vs == MapTrim(SplitStr(iterVarParts[1], ","))
        iterVar == vs[1]
        statVar == Elem(vs, 1)
    IN IF Len(parts) >= 2 /\ StartsWith(collectionExpr, "${") /\ EndsWith(collectionExpr, "}")
       THEN <<Pair(collectionExpr, collection)>> \o
            (IF Truthy(statVar)
             THEN <<Pair("${" \o statVar[1] \o "}", statVar[1])>> ELSE <<>>) \o
            <<Pair("${" \o iterVar \o "}", iterVar)>>
       ELSE <<>>

\* th:if, th:field, th:text, th:value and [[...]]: the body is an expression
expressionBody(s, m) == <<Expr(m.g[1])>>

\* "Process th:with expressions"
withBody(s, m) ==
    FlatMap(LAMBDA assignment :
                LET kv == MapTrim(SplitStr(assignment, "="))
                    varName == kv[1]
                IN ExprOpt(Elem(kv, 1)) \o
                   <<Pair("${" \o varName \o "}", varName)>>,
            SplitStr(m.g[1], ","))

\* "Process th:object expressions"
objectBody(s, m) == <<Pair("${" \o m.g[1] \o "}", m.g[1])>>

\* "Process th:attr expressions"
attrBody(s, m) ==
    FlatMap(LAMBDA assignment :
                ExprOpt(Elem(MapTrim(SplitStr(assignment, "=")), 1)),
            SplitStr(m.g[1], ","))

\* the matches of /name="([^"]+)"/g in s
AttrMatches(name, s) == MatchesOf(LAMBDA t, i : AttrAt(name, t, i), s)

\* the loops over the patterns that are literals of findAllVariableMatches,
\* from th:each to the inline expressions
attributePasses(s) ==
    FlatMap(LAMBDA m : eachBody(s, m), AttrMatches("th:each", s)) \o
    FlatMap(LAMBDA m : expressionBody(s, m), AttrMatches("th:if", s)) \o
    FlatMap(LAMBDA m : withBody(s, m), AttrMatches("th:with", s)) \o
    FlatMap(LAMBDA m : objectBody(s, m), MatchesOf(ObjectRegex, s)) \o
    FlatMap(LAMBDA m : expressionBody(s, m), AttrMatches("th:field", s)) \o
    FlatMap(LAMBDA m : expressionBody(s, m), AttrMatches("th:text", s)) \o
    FlatMap(LAMBDA m : expressionBody(s, m), AttrMatches("th:value", s)) \o
    FlatMap(LAMBDA m : attrBody(s, m), AttrMatches("th:attr", s)) \o
    FlatMap(LAMBDA m : expressionBody(s, m), MatchesOf(InlineRegex, s))

\* if (x.includes('${')) results.push(...extractVariablesFromExpression(x))
ifExpression(x) == IF Includes(x, "${") THEN <<Expr(x)>> ELSE <<>>

\* what the body of a loop would do for each match of the loop
Cands(Body(_, _), text, ms) == [k \in 1..Len(ms) |-> Body(text, ms[k])]

\* the loop bodies guarded by processedExpressions: what each match would
\* push, under the text of the match
RECURSIVE processOnce(_, _)
processOnce(cands, processedExpressions) ==
    IF cands = <<>> THEN <<>>
    ELSE IF cands[1].key \in processedExpressions
    THEN processOnce(Tail(cands), processedExpressions)
    ELSE cands[1].add \o
         processOnce(Tail(cands), processedExpressions \cup {cands[1].key})

\* vars.forEach(([, v]) => results.push([fullMatch, v]))
commentBody(s, m) ==
    [key |-> Whole(s, m), add |-> <<Retag(Whole(s, m), m.g[1])>>]

\* the three loops of processComments, html, parser and proto being what
\* the loops over the three comment patterns matched and left
commentLoops(text, lastIndex, html, parser, proto) ==
    [results |-> processOnce(Cands(commentBody, text, html.ms \o parser.ms \o proto.ms), {}),
     lastIndex |-> [lastIndex EXCEPT !.HTML_COMMENT_REGEX = html.lastIndex,
                                     !.PARSER_COMMENT_REGEX = parser.lastIndex,
                                     !.PROTOTYPE_COMMENT_REGEX = proto.lastIndex]]

processComments(text, lastIndex) ==
    commentLoops(text, lastIndex,
                 ExecLoop(HTML_COMMENT_REGEX, text, lastIndex.HTML_COMMENT_REGEX),
                 ExecLoop(PARSER_COMMENT_REGEX, text, lastIndex.PARSER_COMMENT_REGEX),
                 ExecLoop(PROTOTYPE_COMMENT_REGEX, text, lastIndex.PROTOTYPE_COMMENT_REGEX))

\* markup and jQuery-like selectors: two groups
pairBody(s, m) ==
    [key |-> Whole(s, m), add |-> ifExpression(m.g[1]) \o ifExpression(m.g[2])]

attributeBody(s, m) ==
    LET content == m.g[1]
    IN [key |-> Whole(s, m),
        add |-> IF Includes(content, "=")
                THEN ifExpression(MapTrim(SplitStr(content, "="))[2])
                ELSE ifExpression(content)]

\* position and reference selectors: one group
contentBody(s, m) == [key |-> Whole(s, m), add |-> ifExpression(m.g[1])]

urlBody(s, m) ==
    [key |-> Whole(s, m),
     add |-> IF Includes(m.g[1], "(") THEN pathAndParams(m.g[1], TRUE)
             ELSE ifExpression(m.g[1])]

fragmentBody(s, m) ==
    [key |-> Whole(s, m),
     add |-> IF Includes(m.g[1], "(") THEN pathAndParams(m.g[1], FALSE)
             ELSE ifExpression(m.g[1])]

\* /@\{([^}]+)\}/g and /~\{([^}]+)\}/g
urlPattern(s, i) == BracedAt("@{", s, i)
fragmentPattern(s, i) == BracedAt("~{", s, i)

\* the seven loops of processSelectors, the first five arguments after
\* lastIndex being what the loops over the class-level patterns matched
\* and left
selectorLoops(text, lastIndex, markup, attribute, position, jquery, reference) ==
    [results |->
        processOnce(Cands(pairBody, text, markup.ms) \o
                    Cands(attributeBody, text, attribute.ms) \o
                    Cands(contentBody, text, position.ms) \o
                    Cands(pairBody, text, jquery.ms) \o
                    Cands(contentBody, text, reference.ms) \o
                    Cands(urlBody, text, MatchesOf(urlPattern, text)) \o
                    Cands(fragmentBody, text, MatchesOf(fragmentPattern, text)),
                    {}),
     lastIndex |-> [lastIndex EXCEPT
                       !.MARKUP_SELECTOR_REGEX = markup.lastIndex,
                       !.ATTRIBUTE_SELECTOR_REGEX = attribute.lastIndex,
                       !.POSITION_SELECTOR_REGEX = position.lastIndex,
                       !.JQUERY_SELECTOR_REGEX = jquery.lastIndex,
                       !.REFERENCE_SELECTOR_REGEX = reference.lastIndex]]

processSelectors(text, lastIndex) ==
    selectorLoops(text, lastIndex,
        ExecLoop(MARKUP_SELECTOR_REGEX, text, lastIndex.MARKUP_SELECTOR_REGEX),
        ExecLoop(ATTRIBUTE_SELECTOR_REGEX, text, lastIndex.ATTRIBUTE_SELECTOR_REGEX),
        ExecLoop(POSITION_SELECTOR_REGEX, text, lastIndex.POSITION_SELECTOR_REGEX),
        ExecLoop(JQUERY_SELECTOR_REGEX, text, lastIndex.JQUERY_SELECTOR_REGEX),
        ExecLoop(REFERENCE_SELECTOR_REGEX, text, lastIndex.REFERENCE_SELECTOR_REGEX))

\* the end of [\w.]+ at i, or -1
WordDotEnd(s, i) ==
    IF SkipWhile(s, WordChar \cup {"."}, i) > i
    THEN SkipWhile(s, WordChar \cup {"."}, i) ELSE -1

\* #(ctx|vars|locale|request|response|session|servletContext|
\*   httpServletRequest|httpSession)\.([\w.]+)
basicObjectRegex(s, i) ==
    LET w == FirstWordAt(
                 <<"ctx", "vars", "locale", "request", "response", "session", 
                   "servletContext", "httpServletRequest", "httpSession">>,
                  s, i + 1)
        d == i + 1 + Len(w)
        e == WordDotEnd(s, d + 1)
    IN IF At(s, i) = "#" /\ w /= "" /\ At(s, d) = "." /\ e >= 0
       THEN Hit(e, <<w, Substring(s, d + 1, e)>>) ELSE Fail

\* (hasRole|...|hasIpAddress)\s*\(([^)]*)\)
securityRegex(s, i) ==
    LET w == FirstWordAt(
                 <<"hasRole", "hasAnyRole", "hasAuthority", "hasAnyAuthority", 
                   "principal", "authentication", "permitAll", "denyAll", 
                   "isAnonymous", "isAuthenticated", "isFullyAuthenticated", "hasIpAddress">>,
                  s, i)
        p == SkipWhile(s, Space, i + Len(w))
        e == SkipUntil(s, {")"}, p + 1)
    IN IF w /= "" /\ At(s, p) = "(" /\ At(s, e) = ")"
       THEN Hit(e + 1, <<w, Substring(s, p + 1, e)>>) ELSE Fail

\* #authentication\.principal\.([\w.]+)
principalRegex(s, i) ==
    LET lit == "#authentication.principal."
        e == WordDotEnd(s, i + Len(lit))
    IN IF StartsWithAt(s, lit, i) /\ e >= 0
       THEN Hit(e, <<Substring(s, i + Len(lit), e)>>) ELSE Fail

\* user\.([\w.]+)\(\)
roleRegex(s, i) ==
    LET e == WordDotEnd(s, i + 5)
    IN IF StartsWithAt(s, "user.", i) /\ e >= 0 /\ StartsWithAt(s, "()", e)
       THEN Hit(e + 2, <<Substring(s, i + 5, e)>>) ELSE Fail

\* \$\{([^}]+)\}\s*!=\s*(\d+)
fragmentAssertionRegex(s, i) ==
    LET v == BracedAt("${", s, i)
        a == SkipWhile(s, Space, v.end)
        b == SkipWhile(s, Space, a + 2)
        e == SkipWhile(s, Digit, b)
    IN IF v.end >= 0 /\ StartsWithAt(s, "!=", a) /\ e > b
       THEN Hit(e, <<v.g[1], Substring(s, b, e)>>) ELSE Fail

\* #\{([^}(]+)\(([^)]+)\)\}
messageWithParamsRegex(s, i) ==
    LET b == i + 2
        p == SkipUntil(s, {"}", "("}, b)
        e == SkipUntil(s, {")"}, p + 1)
    IN IF StartsWithAt(s, "#{", i) /\ p > b /\ At(s, p) = "(" /\ e > p + 1
          /\ StartsWithAt(s, ")}", e)
       THEN Hit(e + 2, <<Substring(s, b, p), Substring(s, p + 1, e)>>) ELSE Fail

\* chain\s*\(\s*\)\s*\.\s*chain
nestedMethodRegex(s, i) ==
    LET c == ChainEnd(s, i)
        p == SkipWhile(s, Space, c)
        q == SkipWhile(s, Space, p + 1)
        d == SkipWhile(s, Space, q + 1)
        b == SkipWhile(s, Space, d + 1)
        e == ChainEnd(s, b)
    IN IF c >= 0 /\ At(s, p) = "(" /\ At(s, q) = ")" /\ At(s, d) = "." /\ e >= 0
       THEN Hit(e, <<Substring(s, i, c), Substring(s, b, e)>>) ELSE Fail

\* "Process basic objects"
basicObjectBody(s, m) == <<Pair("${" \o Whole(s, m) \o "}", m.g[2])>>

\* "Process security expressions"
securityBody(s, m) ==
    LET fullMatch == Whole(s, m)
        securityFunction == m.g[1]
        params == m.g[2]
    IN (IF Includes(fullMatch, "#authentication.principal")
        THEN FlatMap(LAMBDA principalMatch :
                         <<Pair(fullMatch, "principal." \o principalMatch.g[1]),
                           Pair(fullMatch, "principal")>>,
                     MatchesOf(principalRegex, fullMatch))
        ELSE <<>>) \o
       (IF securityFunction \in {"hasRole", "hasAnyRole"}
        THEN FlatMap(LAMBDA roleMatch :
                         <<Pair(fullMatch, "user"),
                           Pair(fullMatch, "user." \o roleMatch.g[1])>>,
                     MatchesOf(roleRegex, fullMatch))
        ELSE <<>>) \o
       (IF params /= "" THEN extractVariablesFromParameters(params) ELSE <<>>)

\* "Process fragment assertions"
fragmentAssertionBody(s, m) == <<Pair(Whole(s, m), m.g[1])>>

\* "Process message expressions with parameters"
messageWithParamsBody(s, m) ==
    <<Pair(Whole(s, m), Trim(m.g[1]))>> \o
    FlatMap(LAMBDA param :
                IF StartsWith(param, "${")
                THEN <<Expr(Substring(param, 2, Len(param) - 1))>>
                ELSE <<>>,
            MapTrim(SplitStr(m.g[2], ",")))

\* "Process nested method calls"
nestedMethodBody(s, m) ==
    LET fullMatch == Whole(s, m)
        expr == "${" \o fullMatch \o "}"
    IN Pairs(pathLoop(expr, SplitStr(m.g[1], "."), "", FALSE)) \o
       Pairs(pathLoop(expr, SplitStr(m.g[2], "."), "", FALSE)) \o
       FlatMap(LAMBDA selectionMatch : <<Expr(selectionMatch.g[1])>>,
               MatchesOf(SelectionRegex, fullMatch))

\* the loops after processSelectors, from the basic objects to the nested
\* method calls
trailingPasses(s) ==
    FlatMap(LAMBDA m : basicObjectBody(s, m), MatchesOf(basicObjectRegex, s)) \o
    FlatMap(LAMBDA m : securityBody(s, m), MatchesOf(securityRegex, s)) \o
    FlatMap(LAMBDA m : fragmentAssertionBody(s, m),
            MatchesOf(fragmentAssertionRegex, s)) \o
    FlatMap(LAMBDA m : messageWithParamsBody(s, m),
            MatchesOf(messageWithParamsRegex, s)) \o
    FlatMap(LAMBDA m : nestedMethodBody(s, m), MatchesOf(nestedMethodRegex, s))

\* the class-level pattern objects of ThymeleafVariableParser
StaticPatterns ==
    {"VARIABLE_REGEX", "MESSAGE_REGEX", "LINK_REGEX", "SELECTION_REGEX",
     "MARKUP_SELECTOR_REGEX", "ATTRIBUTE_SELECTOR_REGEX",
     "POSITION_SELECTOR_REGEX", "JQUERY_SELECTOR_REGEX",
     "REFERENCE_SELECTOR_REGEX", "HTML_COMMENT_REGEX", "PARSER_COMMENT_REGEX",
     "PROTOTYPE_COMMENT_REGEX", "ESCAPED_EXPRESSION_REGEX"}

\* the scan position of a pattern object that was just created
InitialLastIndex == [p \in StaticPatterns |-> 0]

\* findAllVariableMatches(text), the pattern objects standing at lastIndex.
\* The method is a sequence of passes over processedText; each pass takes
\* the pushes made and the scan positions left so far (st) and returns them
\* as the pass leaves them.  String.prototype.replace sets the lastIndex of
\* a global pattern to 0 before it scans and leaves it 0.
afterReplace(lastIndex) ==
    [pushes |-> <<>>,
     lastIndex |-> [lastIndex EXCEPT !.ESCAPED_EXPRESSION_REGEX = 0]]

\* a while (exec) loop over a class-level pattern: what its bodies push and
\* where the pattern is left.  The loop starts where the lastIndex of the
\* shared pattern object stands and leaves it where its last exec did.
LoopPass(Body(_, _), s, st, pattern, loop) ==
    [pushes |-> st.pushes \o FlatMap(LAMBDA m : Body(s, m), loop.ms),
     lastIndex |-> [st.lastIndex EXCEPT ![pattern] = loop.lastIndex]]

variablePass_once(s, st) ==
    LoopPass(variableBody, s, st, "VARIABLE_REGEX",
             ExecOnce(VARIABLE_REGEX, s, st.lastIndex.VARIABLE_REGEX))
variablePass(s, st) ==
    LoopPass(variableBody, s, st, "VARIABLE_REGEX",
             ExecLoop(VARIABLE_REGEX, s, st.lastIndex.VARIABLE_REGEX))

messagePass(s, st) ==
    LoopPass(messageBody, s, st, "MESSAGE_REGEX",
             ExecLoop(MESSAGE_REGEX, s, st.lastIndex.MESSAGE_REGEX))

linkPass(s, st) ==
    LoopPass(linkBody, s, st, "LINK_REGEX",
             ExecLoop(LINK_REGEX, s, st.lastIndex.LINK_REGEX))

selectionPass_once(s, st) ==
    LoopPass(selectionBody, s, st, "SELECTION_REGEX",
             ExecOnce(SELECTION_REGEX, s, st.lastIndex.SELECTION_REGEX))
selectionPass(s, st) ==
    LoopPass(selectionBody, s, st, "SELECTION_REGEX",
             ExecLoop(SELECTION_REGEX, s, st.lastIndex.SELECTION_REGEX))

\* passes whose patterns are created anew by each call
literalPass(st, pushes) ==
    [pushes |-> st.pushes \o pushes, lastIndex |-> st.lastIndex]

\* matches.push(...this.processComments(processedText)) and the same for
\* processSelectors
helperPass(st, helper) ==
    [pushes |-> st.pushes \o helper.results, lastIndex |-> helper.lastIndex]

commentsPass(s, st) == helperPass(st, processComments(s, st.lastIndex))
selectorsPass(s, st) == helperPass(st, processSelectors(s, st.lastIndex))

scanProcessedText(processedText, lastIndex) ==
    literalPass(
        selectorsPass(processedText,
            commentsPass(processedText,
                literalPass(
                    selectionPass(processedText,
                        linkPass(processedText,
                            messagePass(processedText,
                                variablePass(processedText,
                                    afterReplace(lastIndex))))),
                    attributePasses(processedText)))),
        trailingPasses(processedText))

\* const matches = [...]; ...; return this.removeDuplicates(matches)
returned(matches, lastIndex) ==
    [matches |-> matches, result |-> removeDuplicates(matches),
     lastIndex |-> lastIndex]

scanned(scan) == returned(pushed(scan.pushes), scan.lastIndex)

findAllVariableMatches(text, lastIndex) ==
    scanned(scanProcessedText(preprocessText(text), lastIndex))

\* /th:each="([^"]+)\s*:\s*\${([^}]+)}"/g : the first group is greedy, so the
\* last `:` before the `${` that closes the attribute is the separator
RECURSIVE iteratorEachTry(_, _, _)
iteratorEachTry(s, b, c) ==
    LET a == SkipWhile(s, Space, c + 1)
        v == BracedAt("${", s, a)
    IN IF c <= b THEN Fail
       ELSE IF At(s, c) = ":" /\ v.end >= 0 /\ At(s, v.end) = "\""
       THEN Hit(v.end + 1, <<Substring(s, b, c), v.g[1]>>)
       ELSE iteratorEachTry(s, b, c - 1)

iteratorEachRegex(s, i) ==
    LET open == "th:each=\""
        b == i + Len(open)
    IN IF StartsWithAt(s, open, i)
       THEN iteratorEachTry(s, b, SkipUntil(s, {"\""}, b) - 1) ELSE Fail

\* map.set(k, v)
MapSet(map, k, v) ==
    [x \in DOMAIN map \cup {k} |-> IF x = k THEN v ELSE map[x]]

\* the body of the loop of findIteratorVariables, over the matches left
RECURSIVE iteratorLoop(_, _)
iteratorLoop(ms, info) ==
    IF ms = <<>> THEN info
    ELSE LET iterVars == MapTrim(SplitStr(ms[1].g[1], ","))
             iterVar == iterVars[1]
             collection == ms[1].g[2]
             one == [iteratorVars |-> info.iteratorVars \cup {iterVar},
                     parentVars |-> MapSet(info.parentVars, iterVar, collection),
                     statVars |-> info.statVars]
             two == [iteratorVars |-> one.iteratorVars \cup {iterVars[2]},
                     parentVars |-> one.parentVars,
                     statVars |-> MapSet(info.statVars, iterVar, iterVars[2])]
         IN iteratorLoop(Tail(ms), IF Len(iterVars) >= 2 THEN two ELSE one)

findIteratorVariables(text) ==
    iteratorLoop(MatchesOf(iteratorEachRegex, text),
                 [iteratorVars |-> {}, parentVars |-> [x \in {} |-> ""],
                  statVars |-> [x \in {} |-> ""]])

\* findVariableReferences(text): the references, and the scan positions
\* its call of findAllVariableMatches leaves
\* the loop over allMatches
referencesOf(text, allMatches, iterInfo) ==
    FlatMap(LAMBDA pair :
                IF IndexOf(text, pair[1]) /= -1
                THEN <<[variable |-> pair[2],
                        startIndex |-> IndexOf(text, pair[1]),
                        isIteratorVar |-> pair[2] \in iterInfo.iteratorVars]>>
                ELSE <<>>,
            allMatches)

referencesAfter(text, all, iterInfo) ==
    [results |-> referencesOf(text, all.result, iterInfo),
     lastIndex |-> all.lastIndex]

findVariableReferences(text, lastIndex) ==
    referencesAfter(text, findAllVariableMatches(text, lastIndex),
                    findIteratorVariables(text))

(***************************************************************************)
(* ThymeleafDefinitionParser                                               *)
(***************************************************************************)

Quote == {"'", "\""}

\* s.replace(re, to) for a global re that is one literal character
RECURSIVE ReplaceChar(_, _, _)
ReplaceChar(s, c, to) ==
    IF s = "" THEN ""
    ELSE (IF At(s, 0) = c THEN to ELSE At(s, 0)) \o ReplaceChar(From(s, 1), c, to)

\* path.replace(/\\/g, '/')
normalizePath(path) == ReplaceChar(path, "\\", "/")

\* a value that may be undefined or null, as a string
Val(o) == IF o = Undefined THEN "" ELSE o[1]

\* x || y
OrElse(x, y) == IF Truthy(x) THEN x ELSE y

\* .replace(/^['"]|['"]$/g, '')
StripQuotes(s) ==
    LET lead == At(s, 0) \in Quote
        trail == At(s, Len(s) - 1) \in Quote /\ (lead => Len(s) >= 2)
    IN Substring(s, IF lead THEN 1 ELSE 0, IF trail THEN Len(s) - 1 ELSE Len(s))

\* .replace(/^p/, '') and .replace(/p$/, '') for a literal p
StripStart(s, p) == IF StartsWith(s, p) THEN From(s, Len(p)) ELSE s
StripEnd(s, p) == IF EndsWith(s, p) THEN Substring(s, 0, Len(s) - Len(p)) ELSE s

\* extractPathFromReference(reference), from its last step to its first; each
\* step takes path as the step before left it
\* "Handle fragment notation with parameters" and "Handle expressions in path"
fragmentNotation(fragmentParts, pathWithoutFragment) ==
    IF Len(fragmentParts) > 1 /\ IndexOf(fragmentParts[2], "(") > -1
    THEN Def(pathWithoutFragment)
    ELSE IF pathWithoutFragment = "" THEN Undefined
    ELSE Def(pathWithoutFragment)

splitFragment(fragmentParts) ==
    fragmentNotation(fragmentParts, Trim(fragmentParts[1]))

\* "Handle URL parameters"
urlParameters(path, urlParamIndex) ==
    splitFragment(MapTrim(SplitStr(
        IF urlParamIndex > -1 THEN Substring(path, 0, urlParamIndex) ELSE path,
        "::")))

\* "Handle preprocessed expressions"
preprocessedExpression(path) ==
    IF StartsWith(path, "__") /\ EndsWith(path, "__") THEN Def(path)
    ELSE urlParameters(path, IndexOf(path, "("))

\* "Remove leading slash"
leadingSlash(path) == preprocessedExpression(StripStart(path, "/"))

\* "Handle context-relative URLs"
contextRelative(path) ==
    leadingSlash(IF StartsWith(path, "~/") THEN From(path, 2) ELSE path)

\* "Handle template resolver prefixes"
resolverPrefix(path) ==
    contextRelative(IF StartsWith(path, "classpath:") \/ StartsWith(path, "file:")
                    THEN From(path, IndexOf(path, ":") + 1) ELSE path)

\* "Remove quotes and trim"
extractPathFromReference(reference) ==
    IF ~Truthy(reference) THEN Undefined
    ELSE resolverPrefix(Trim(StripEnd(StripStart(StripStart(
             StripQuotes(Trim(reference[1])), "@{"), "~{"), "}")))

\* parseFragmentReference(path): fragmentId null is Undefined
parseFragmentReference(path) ==
    LET parts == MapTrim(SplitStr(path, "::"))
    IN [templateFile |-> parts[1],
        fragmentId |-> OrElse(Elem(parts, 1), Undefined)]

\* th:(?:replace|insert|include|substituteby)="([^"]+)"|@{([^}]+)}|
\*   layout:(?:decorate|fragment)="([^"]+)"
TEMPLATE_REFERENCE_PATTERN(s, i) ==
    LET tw == FirstWordAt(<<"replace", "insert", "include", "substituteby">>, s, i + 3)
        th == IF StartsWithAt(s, "th:", i) /\ tw /= ""
              THEN RunBetweenAt("=\"", "\"", "\"", s, i + 3 + Len(tw)) ELSE Fail
        static == BracedAt("@{", s, i)
        lw == FirstWordAt(<<"decorate", "fragment">>, s, i + 7)
        layout == IF StartsWithAt(s, "layout:", i) /\ lw /= ""
                  THEN RunBetweenAt("=\"", "\"", "\"", s, i + 7 + Len(lw)) ELSE Fail
    IN IF th.end >= 0 THEN Hit(th.end, <<Def(th.g[1]), Undefined, Undefined>>)
       ELSE IF static.end >= 0
       THEN Hit(static.end, <<Undefined, Def(static.g[1]), Undefined>>)
       ELSE IF layout.end >= 0
       THEN Hit(layout.end, <<Undefined, Undefined, Def(layout.g[1])>>)
       ELSE Fail

FRAGMENT_PATTERN(s, i) == BracedAt("~{", s, i)

\* '([^']+)' at i
QuotedAt(s, i) == RunBetweenAt("'", "'", "'", s, i)

\* \$\{[^}]+\}\s*\?\s*'([^']+)'\s*:\s*(?:'([^']+)'|_)
CONDITIONAL_PATTERN(s, i) ==
    LET v == BracedAt("${", s, i)
        a == SkipWhile(s, Space, v.end)
        t == QuotedAt(s, SkipWhile(s, Space, a + 1))
        c == SkipWhile(s, Space, t.end)
        d == SkipWhile(s, Space, c + 1)
        f == QuotedAt(s, d)
    IN IF v.end < 0 \/ At(s, a) /= "?" \/ t.end < 0 \/ At(s, c) /= ":" THEN Fail
       ELSE IF f.end >= 0 THEN Hit(f.end, <<Def(t.g[1]), Def(f.g[1])>>)
       ELSE IF At(s, d) = "_" THEN Hit(d + 1, <<Def(t.g[1]), Undefined>>)
       ELSE Fail

\* \$\{[^}]+\}\s*\?:\s*'([^']+)'
ELVIS_PATTERN(s, i) ==
    LET v == BracedAt("${", s, i)
        a == SkipWhile(s, Space, v.end)
        t == QuotedAt(s, SkipWhile(s, Space, a + 2))
    IN IF v.end >= 0 /\ StartsWithAt(s, "?:", a) /\ t.end >= 0
       THEN Hit(t.end, <<Def(t.g[1])>>) ELSE Fail

\* \|([^|]+)\|
LITERAL_SUBSTITUTION_PATTERN(s, i) == RunBetweenAt("|", "|", "|", s, i)

\* [<>"|?*]
INVALID_PATH_CHARS(s) == \E i \in 0..(Len(s) - 1) : At(s, i) \in {"<", ">", "\"", "|", "?", "*"}

\* \$\{[^}]+\}|\*\{[^}]+\}|#\{[^}]+\}
ExpressionSeparator(s, i) ==
    LET opens == {o \in {"${", "*{", "#{"} : BracedAt(o, s, i).end >= 0}
    IN IF opens = {} THEN Fail
       ELSE Hit(BracedAt(CHOOSE o \in opens : TRUE, s, i).end, <<>>)

\* (?:th:(?:replace|insert|include))\s*=\s*["']([^"']+)\s*::\s*[^"']+\([^)]+\)["']
\* the first group is greedy: the last `::` before the first quote after
\* which the rest matches, and then the last `(` that does
complexFragmentPattern(s, i) ==
    LET w == FirstWordAt(<<"replace", "insert", "include">>, s, i + 3)
        eq == SkipWhile(s, Space, i + 3 + Len(w))
        o == SkipWhile(s, Space, eq + 1)
        q == SkipUntil(s, Quote, o + 1)
        closeOf(p) == SkipUntil(s, {")"}, p + 1)
        parens(c) == {p \in (c + 3)..(q - 1) :
                         /\ At(s, p) = "("
                         /\ closeOf(p) > p + 1
                         /\ At(s, closeOf(p)) = ")"
                         /\ At(s, closeOf(p) + 1) \in Quote}
        colons == {c \in (o + 2)..(q - 1) : StartsWithAt(s, "::", c) /\ parens(c) /= {}}
        c == CHOOSE x \in colons : \A y \in colons : y <= x
        p == CHOOSE x \in parens(c) : \A y \in parens(c) : y <= x
    IN IF StartsWithAt(s, "th:", i) /\ w /= "" /\ At(s, eq) = "="
          /\ At(s, o) \in Quote /\ colons /= {}
       THEN Hit(closeOf(p) + 2, <<Substring(s, o + 1, c)>>) ELSE Fail

\* Array.from(s.matchAll(re)): matchAll scans with a copy of the pattern
\* that starts at the lastIndex of the original and leaves the original alone
MatchAll(Re(_, _), s, li) == ExecLoop(Re, s, li).ms

\* the instance-level global pattern objects of ThymeleafDefinitionParser
InstancePatterns ==
    {"TEMPLATE_REFERENCE_PATTERN", "FRAGMENT_PATTERN", "CONDITIONAL_PATTERN",
     "ELVIS_PATTERN", "LITERAL_SUBSTITUTION_PATTERN"}

\* a reference the loops would push if its path is truthy and not yet seen
Cand(path, startIndex) == [path |-> path, startIndex |-> startIndex]

\* if (p) { const cleanPath = extractPathFromReference(p); ... line.indexOf(p) }
quotedCand(line, p) ==
    IF Truthy(p)
    THEN <<Cand(extractPathFromReference(p), IndexOf(line, p[1]))>> ELSE <<>>

\* the body of the loop over the standard template references
\* startIndex = line.indexOf(fullMatch) + fullMatch.indexOf(content)
templateStart(line, fullMatch, thContent, staticContent, layoutContent) ==
    IndexOf(line, fullMatch) +
    (IF Truthy(thContent) THEN IndexOf(fullMatch, thContent[1])
     ELSE IF Truthy(layoutContent) THEN IndexOf(fullMatch, layoutContent[1])
     ELSE IndexOf(fullMatch, Val(staticContent)))

\* "Standard template reference"
standardCand(content, startIndex, path) ==
    <<Cand(path, IF IndexOf(content, Val(path)) >= 0
                 THEN startIndex + IndexOf(content, Val(path))
                 ELSE startIndex)>>

templateContent(line, li, content, startIndex) ==
    IF ~Truthy(content) THEN <<>>
    ELSE IF Includes(content[1], "?") /\ ~Includes(content[1], "?:")
    THEN FlatMap(LAMBDA condMatch :
                     quotedCand(line, condMatch.g[1]) \o
                     (IF Truthy(condMatch.g[2]) /\ condMatch.g[2] /= Def("_")
                      THEN quotedCand(line, condMatch.g[2]) ELSE <<>>),
                 MatchAll(CONDITIONAL_PATTERN, content[1], li.CONDITIONAL_PATTERN))
    ELSE IF Includes(content[1], "?:")
    THEN FlatMap(LAMBDA elvisMatch : quotedCand(line, elvisMatch.g[1]),
                 MatchAll(ELVIS_PATTERN, content[1], li.ELVIS_PATTERN))
    ELSE standardCand(content[1], startIndex, extractPathFromReference(content))

templateBody(line, m, li) ==
    templateContent(line, li, OrElse(m.g[1], OrElse(m.g[2], m.g[3])),
                    templateStart(line, Whole(line, m), m.g[1], m.g[2], m.g[3]))

literalBody(line, m) ==
    <<Cand(extractPathFromReference(Def(m.g[1])), IndexOf(line, Whole(line, m)))>>

fragmentCand(line, startIndex, path) ==
    <<Cand(path, IF IndexOf(line, Val(path)) >= 0
                 THEN IndexOf(line, Val(path)) ELSE startIndex)>>

fragmentRefBody(line, m) ==
    fragmentCand(line, IndexOf(line, Whole(line, m)) + 2,
                 extractPathFromReference(Def(SplitStr(m.g[1], "::")[1])))

complexBody(line, m) ==
    <<Cand(extractPathFromReference(Def(m.g[1])), IndexOf(line, Whole(line, m)))>>

\* if (path && !seen.has(path)) { references.push(...); seen.add(path) }
RECURSIVE pushUnseen(_, _)
pushUnseen(cands, seen) ==
    IF cands = <<>> THEN <<>>
    ELSE IF ~Truthy(cands[1].path) \/ cands[1].path[1] \in seen
    THEN pushUnseen(Tail(cands), seen)
    ELSE <<[path |-> cands[1].path[1], startIndex |-> cands[1].startIndex]>> \o
         pushUnseen(Tail(cands), seen \cup {cands[1].path[1]})

\* the predicate of references.filter
keepReference(ref) ==
    IF ref.path = "" \/ ref.path = "::" THEN FALSE
    ELSE IF Includes(ref.path, "${") \/ Includes(ref.path, "*{") \/ Includes(ref.path, "#{")
    THEN LET parts == SplitRegex(ExpressionSeparator, ref.path, 0, 0)
         IN \A k \in 1..Len(parts) : ~INVALID_PATH_CHARS(parts[k])
    ELSE IF StartsWith(ref.path, "classpath:") \/ StartsWith(ref.path, "file:")
    THEN ~INVALID_PATH_CHARS(From(ref.path, IndexOf(ref.path, ":") + 1))
    ELSE ~INVALID_PATH_CHARS(ref.path)

\* "Remove duplicates while preserving order", by normalized path
RECURSIVE uniqueRefs(_, _)
uniqueRefs(refs, seenPaths) ==
    IF refs = <<>> THEN <<>>
    ELSE IF normalizePath(refs[1].path) \in seenPaths
    THEN uniqueRefs(Tail(refs), seenPaths)
    ELSE <<refs[1]>> \o uniqueRefs(Tail(refs), seenPaths \cup {normalizePath(refs[1].path)})

\* findTemplateReferences(line), the pattern objects of the instance standing
\* at li
findTemplateReferences(line, li) ==
    LET references ==
            pushUnseen(
                FlatMap(LAMBDA m : templateBody(line, m, li),
                        MatchAll(TEMPLATE_REFERENCE_PATTERN, line, li.TEMPLATE_REFERENCE_PATTERN)) \o
                FlatMap(LAMBDA m : literalBody(line, m),
                        MatchAll(LITERAL_SUBSTITUTION_PATTERN, line, li.LITERAL_SUBSTITUTION_PATTERN)) \o
                FlatMap(LAMBDA m : fragmentRefBody(line, m),
                        MatchAll(FRAGMENT_PATTERN, line, li.FRAGMENT_PATTERN)) \o
                FlatMap(LAMBDA m : complexBody(line, m),
                        MatchesOf(complexFragmentPattern, line)),
                {})
    IN uniqueRefs(SelectSeq(references, keepReference), {})

\* new RegExp(`th:fragment\\s*=\\s*["']${fragmentName}["']`): the name is part
\* of the pattern source.  For names over identifier characters, `.`, `(` and
\* `)` the constructor throws a SyntaxError exactly when the parentheses of
\* the name do not pair up.
RECURSIVE ParensPair(_, _)
ParensPair(source, depth) ==
    IF source = "" THEN depth = 0
    ELSE IF At(source, 0) = "(" THEN ParensPair(From(source, 1), depth + 1)
    ELSE IF At(source, 0) = ")" THEN depth > 0 /\ ParensPair(From(source, 1), depth - 1)
    ELSE ParensPair(From(source, 1), depth)

RegExpSyntaxError(fragmentName) == ~ParensPair(fragmentName, 0)

\* the end of a match of the name, as a pattern, at i: a parenthesis consumes
\* nothing, `.` any character but a line terminator, any other character
\* itself
RECURSIVE NameEnd(_, _, _)
NameEnd(line, fragmentName, i) ==
    IF fragmentName = "" THEN i
    ELSE IF At(fragmentName, 0) \in {"(", ")"} THEN NameEnd(line, From(fragmentName, 1), i)
    ELSE IF i >= Len(line) THEN -1
    ELSE IF At(fragmentName, 0) = "." /\ At(line, i) \notin LineTerminator
    THEN NameEnd(line, From(fragmentName, 1), i + 1)
    ELSE IF At(fragmentName, 0) = At(line, i)
    THEN NameEnd(line, From(fragmentName, 1), i + 1)
    ELSE -1

\* pattern.test(line)
fragmentTest(line, fragmentName) ==
    \E i \in 0..(Len(line) - 1) :
        LET a == SkipWhile(line, Space, i + 11)
            b == SkipWhile(line, Space, a + 1)
            e == NameEnd(line, fragmentName, b + 1)
        IN /\ StartsWithAt(line, "th:fragment", i)
           /\ At(line, a) = "="
           /\ At(line, b) \in Quote
           /\ e >= 0
           /\ At(line, e) \in Quote

\* findFragmentInText(text, fragmentName): whether the call threw, and the
\* position returned (Undefined for undefined)
findFragmentInText(text, fragmentName) ==
    LET lines == SplitStr(text, "\n")
        hits == {k \in 1..Len(lines) : fragmentTest(lines[k], fragmentName)}
        i == CHOOSE k \in hits : \A j \in hits : k <= j
    IN IF RegExpSyntaxError(fragmentName) THEN [threw |-> TRUE, value |-> Undefined]
       ELSE IF hits = {} THEN [threw |-> FALSE, value |-> Undefined]
       ELSE [threw |-> FALSE,
             value |-> Def([line |-> i - 1,
                            character |-> IndexOf(lines[i], "th:fragment")])]

(***************************************************************************)
(* The analyzers as a state machine: a caller requests one entry point on  *)
(* an input, and the call runs against the pattern objects the earlier     *)
(* calls left behind.  Limits of the engine (call stack, memory) are not   *)
(* modelled.                                                               *)
(***************************************************************************)

VARIABLES
    pc,             \* "ready": a call is requested; "done": it has returned
    op,             \* the entry point requested
    input,          \* how the text of the request was put together
    text,           \* the text (or line, or path) argument
    name,           \* the fragmentName argument of findFragmentInText
    lastIndex,      \* lastIndex of each class-level pattern of the variable parser
    instanceIndex,  \* lastIndex of each global pattern of the definition parser
    observed,       \* the lastIndex values the last findAllVariableMatches began with
    matches,        \* the pairs the last findAllVariableMatches pushed
    result,         \* what the last call returned
    threw,          \* whether the last call threw
    history,        \* the calls so far, in order, each with what it returned
    calls,          \* the number of calls so far
    frames          \* the calls of extractVariablesFromExpression in progress, the outermost first

\* the state of the analyzers
parserVars == <<pc, op, input, text, name, lastIndex, instanceIndex, observed,
                matches, result, threw, history, calls, frames>>

VARIABLES
    currentState,         \* ServerManager.currentState
    context,              \* the context keys thymelab:isStarting and thymelab:isRunning
    config,               \* the settings: the JAR is there, the directories are set
    process,              \* ProcessManager.process: 0 for null, else the child
    healthCheckInterval,  \* ProcessManager.healthCheckInterval and its callback
    children,             \* the child processes spawned so far
    tasks,                \* the asynchronous calls in progress or settled
    queue                 \* the continuations that are ready to run, in order

\* the state of the server manager, its process manager and their world
serverVars == <<currentState, context, config, process, healthCheckInterval,
                children, tasks, queue>>

VARIABLES
    fileCache,        \* ThymeleafDefinitionProvider.fileCache: per template path, the list found, named by the time it was stored
    lastCacheUpdate,  \* ThymeleafDefinitionProvider.lastCacheUpdate
    clock,            \* Date.now(), in milliseconds
    lookups,          \* the getFiles calls that await findFiles
    served            \* what the last getFiles answered from the cache

\* the state of the definition provider and the clock
providerVars == <<fileCache, lastCacheUpdate, clock, lookups, served>>

vars == <<parserVars, serverVars, providerVars>>

\* the most calls one behaviour makes
MaxCalls == 3

\* a call has returned (or thrown): the bookkeeping every entry point shares
Returned(value, didThrow) ==
    /\ pc' = "done"
    /\ result' = value
    /\ threw' = didThrow
    /\ history' = Append(history, [op |-> op, text |-> text, name |-> name,
                                    result |-> value, threw |-> didThrow])
    /\ calls' = calls + 1
    /\ UNCHANGED <<op, input, text, name, instanceIndex, frames>>
    /\ UNCHANGED <<serverVars, providerVars>>

\* findAllVariableMatches has returned r
AllMatchesReturned(r) ==
    /\ observed' = lastIndex
    /\ matches' = r.matches
    /\ lastIndex' = r.lastIndex
    /\ Returned(r.result, FALSE)

FindAllVariableMatches ==
    /\ pc = "ready"
    /\ op = "findAllVariableMatches"
    /\ AllMatchesReturned(findAllVariableMatches(text, lastIndex))

\* findVariableReferences has returned r
ReferencesReturned(r) ==
    /\ observed' = lastIndex
    /\ lastIndex' = r.lastIndex
    /\ Returned(r.results, FALSE)
    /\ UNCHANGED matches

FindVariableReferences ==
    /\ pc = "ready"
    /\ op = "findVariableReferences"
    /\ ReferencesReturned(findVariableReferences(text, lastIndex))

FindIteratorVariables ==
    /\ pc = "ready"
    /\ op = "findIteratorVariables"
    /\ Returned(findIteratorVariables(text), FALSE)
    /\ UNCHANGED <<lastIndex, observed, matches>>

FindTemplateReferences ==
    /\ pc = "ready"
    /\ op = "findTemplateReferences"
    /\ Returned(findTemplateReferences(text, instanceIndex), FALSE)
    /\ UNCHANGED <<lastIndex, observed, matches>>

ParseFragmentReference ==
    /\ pc = "ready"
    /\ op = "parseFragmentReference"
    /\ Returned(parseFragmentReference(text), FALSE)
    /\ UNCHANGED <<lastIndex, observed, matches>>

\* findFragmentInText has returned r.value or thrown
FragmentReturned(r) ==
    /\ Returned(r.value, r.threw)
    /\ UNCHANGED <<lastIndex, observed, matches>>

FindFragmentInText ==
    /\ pc = "ready"
    /\ op = "findFragmentInText"
    /\ FragmentReturned(findFragmentInText(text, name))

\* the scan position of each pattern object of a new definition parser
InitialInstanceIndex == [p \in InstancePatterns |-> 0]

\* the settings: whether jarPath names a file that exists, and whether the
\* three resource directories are set
Settings == [jar : BOOLEAN, dirs : BOOLEAN]

\* the settings of a workspace that is ready to serve
Configured == [jar |-> TRUE, dirs |-> TRUE]

\* new ServerManager(context), new ProcessManager(...): no state but Stopped,
\* no child process, no timer, no call in progress
Constructed(settings) ==
    /\ currentState = "Stopped"
    /\ context = [isStarting |-> FALSE, isRunning |-> FALSE]
    /\ config = settings
    /\ process = 0
    /\ healthCheckInterval = "none"
    /\ children = <<>>
    /\ tasks = <<>>
    /\ queue = <<>>

\* the clock when the extension is activated
Launched == 10000

\* new ThymeleafDefinitionProvider(): empty caches, lastCacheUpdate 0
ProviderConstructed ==
    /\ fileCache = <<>>
    /\ lastCacheUpdate = 0
    /\ clock = Launched
    /\ lookups = <<>>
    /\ served = [kind |-> "none"]

\* the state before any call: the class is loaded, a definition parser made
Idle ==
    /\ pc = "done"
    /\ op = ""
    /\ input = [kind |-> "none"]
    /\ text = ""
    /\ name = ""
    /\ lastIndex = InitialLastIndex
    /\ instanceIndex = InitialInstanceIndex
    /\ observed = InitialLastIndex
    /\ matches = <<>>
    /\ result = <<>>
    /\ threw = FALSE
    /\ history = <<>>
    /\ calls = 0
    /\ frames = <<>>
    /\ Constructed(Configured)
    /\ ProviderConstructed

\* templates the callers analyze: between them they carry every kind of
\* expression, comment and selector the class-level patterns scan for
Templates ==
    {"<p th:text=\"${u.n}\">*{age}",
     "<!--${a}-->/*[${c}]*/#{m}@{/u}\\${no}[x]:nth-child(2)"}

\* a template with an iteration
EachTemplates == {"<tr th:each=\"u, st : ${us}\">"}

\* a line given to the definition parser
Lines == {"<p th:insert=\"f/h :: h\" th:fragment=\"hdr\">~{x/y}|z|"}

\* fragment names asked for: a plain one, and one that is not a pattern
FragmentNames == {"hdr", "("}

\* the requests a caller may make
Requests ==
    [op : {"findAllVariableMatches"}, text : Templates, name : {""}]
    \cup [op : {"findVariableReferences", "findIteratorVariables"},
          text : EachTemplates, name : {""}]
    \cup [op : {"findTemplateReferences"}, text : Lines, name : {""}]
    \cup [op : {"parseFragmentReference"}, text : {"a/b :: c"}, name : {""}]
    \cup [op : {"findFragmentInText"}, text : Lines, name : FragmentNames]

Request ==
    /\ pc = "done"
    /\ calls < MaxCalls
    /\ \E r \in Requests :
          /\ op' = r.op
          /\ text' = r.text
          /\ name' = r.name
    /\ pc' = "ready"
    /\ input' = [kind |-> "request"]
    /\ UNCHANGED <<lastIndex, instanceIndex, observed, matches, result, threw,
                   history, calls, frames>>
    /\ UNCHANGED <<serverVars, providerVars>>

Init == Idle

Next ==
    \/ Request
    \/ FindAllVariableMatches
    \/ FindVariableReferences
    \/ FindIteratorVariables
    \/ FindTemplateReferences
    \/ ParseFragmentReference
    \/ FindFragmentInText

Spec == Init /\ [][Next]_vars

(***************************************************************************)
(* One call of findAllVariableMatches on a text with one expression        *)
(***************************************************************************)

\* the most segments a chain of the analyzed expressions has
MaxSegs == 3

\* names the segments of a chain are taken from: two plain property names,
\* a name of the security table and a name of the reserved-word table
Words == {"user", "name", "principal", "startsWith"}

\* the chains s1.s2.....sN, as sequences of segments
Chains == UNION {[1..n -> Words] : n \in 1..MaxSegs}

\* segs.join(sep)
RECURSIVE Join(_, _)
Join(segs, sep) ==
    IF segs = <<>> THEN ""
    ELSE IF Len(segs) = 1 THEN segs[1]
    ELSE segs[1] \o sep \o Join(Tail(segs), sep)

\* how the expression stands in the text
Forms ==
    {"variable", "attribute", "selection", "escaped", "escapedLiteral",
     "utility", "filterSize", "filterIsEmpty"}

\* the text of a template that holds the chain in the given form
TextOf(form, chain) ==
    CASE form = "variable" -> "${" \o chain \o "}"
      [] form = "attribute" -> "<p th:text=\"${" \o chain \o "}\">"
      [] form = "selection" -> "*{" \o chain \o "}"
      [] form = "escaped" -> "<p th:text=\"\\${" \o chain \o "}\">"
      [] form = "escapedLiteral" -> "<p th:text=\"\\${'}' + " \o chain \o "}\">"
      [] form = "utility" -> "${#strings.toUpperCase(" \o chain \o ")}"
      [] form = "filterSize" -> "${" \o chain \o ".?[price > 10].size()}"
      [] form = "filterIsEmpty" -> "${" \o chain \o ".?[price > 10].isEmpty()}"

\* a template with two attributes whose values hold braces and colons
AttributeTexts == {"<p th:if=\"}:a}:\" th:with=\"}:a=1\">"}

ExpressionInputs ==
    [kind : {"expression"}, form : Forms, segs : Chains]
    \cup [kind : {"attributes"}, form : AttributeTexts, segs : {<<>>}]

InputText(in) ==
    IF in.kind = "expression" THEN TextOf(in.form, Join(in.segs, "."))
    ELSE in.form

\* a caller is about to analyze one text; the class was just loaded
ExpressionInit ==
    /\ pc = "ready"
    /\ op = "findAllVariableMatches"
    /\ input \in ExpressionInputs
    /\ text = InputText(input)
    /\ name = ""
    /\ lastIndex = InitialLastIndex
    /\ instanceIndex = InitialInstanceIndex
    /\ observed = InitialLastIndex
    /\ matches = <<>>
    /\ result = <<>>
    /\ threw = FALSE
    /\ history = <<>>
    /\ calls = 0
    /\ frames = <<>>
    /\ Constructed(Configured)
    /\ ProviderConstructed

ExpressionSpec == ExpressionInit /\ [][FindAllVariableMatches]_vars

(***************************************************************************)
(* One call of findAllVariableMatches on a text with one link expression   *)
(* that holds no ${...}                                                    *)
(***************************************************************************)

\* the most segments the path of an analyzed link has
MaxPathSegs == 2

\* the segments of a static path: plain names, a file name, a path variable
PathSegments == {"home", "css", "main.css", "{id}"}

\* the paths /s1/.../sN
StaticPaths == UNION {[1..n -> PathSegments] : n \in 1..MaxPathSegs}

\* the parameter lists of a link: none, numeric and quoted values, two
\* parameters, and a value that is a bare name
LinkParams == {"", "(id=1)", "(tab='info')", "(id=1,tab='info')", "(id=userId)"}

\* where the link stands: alone, or as the value of an attribute
LinkForms == {"link", "href"}

LinkInputs ==
    [kind : {"link"}, form : LinkForms, segs : StaticPaths, params : LinkParams]

\* the text of a template that holds the link
LinkText(in) ==
    IF in.form = "link"
    THEN "@{/" \o Join(in.segs, "/") \o in.params \o "}"
    ELSE "<a th:href=\"@{/" \o Join(in.segs, "/") \o in.params \o "}\">"

\* a caller is about to analyze one text; the class was just loaded
LinkInit ==
    /\ pc = "ready"
    /\ op = "findAllVariableMatches"
    /\ input \in LinkInputs
    /\ text = LinkText(input)
    /\ name = ""
    /\ lastIndex = InitialLastIndex
    /\ instanceIndex = InitialInstanceIndex
    /\ observed = InitialLastIndex
    /\ matches = <<>>
    /\ result = <<>>
    /\ threw = FALSE
    /\ history = <<>>
    /\ calls = 0
    /\ frames = <<>>
    /\ Constructed(Configured)
    /\ ProviderConstructed

LinkSpec == LinkInit /\ [][FindAllVariableMatches]_vars

(***************************************************************************)
(* One call of findIteratorVariables on a text with one th:each binding    *)
(***************************************************************************)

\* the names of the item variable and of the status variable ("": none)
ItemVars == {"user", "item"}
StatVars == {"", "stat", "iterStat"}

\* the collection expressions iterated over
Collections == {"users", "order.items", "items"}

\* what stands between the item variable and the status variable, around
\* the colon, and after the tag
Commas == {",", ", "}
Colons == {" : ", ": "}
Bodies == {"", "<td th:text=\"${user.name}\">"}

EachInputs ==
    [kind : {"each"}, item : ItemVars, stat : StatVars, collection : Collections,
     comma : Commas, colon : Colons, body : Bodies]

\* the text of a template that holds the binding
EachText(in) ==
    "<tr th:each=\"" \o in.item
    \o (IF in.stat = "" THEN "" ELSE in.comma \o in.stat)
    \o in.colon \o "${" \o in.collection \o "}\">" \o in.body

\* a caller is about to scan one text for its iteration variables
EachInit ==
    /\ pc = "ready"
    /\ op = "findIteratorVariables"
    /\ input \in EachInputs
    /\ text = EachText(input)
    /\ name = ""
    /\ lastIndex = InitialLastIndex
    /\ instanceIndex = InitialInstanceIndex
    /\ observed = InitialLastIndex
    /\ matches = <<>>
    /\ result = <<>>
    /\ threw = FALSE
    /\ history = <<>>
    /\ calls = 0
    /\ frames = <<>>
    /\ Constructed(Configured)
    /\ ProviderConstructed

EachSpec == EachInit /\ [][FindIteratorVariables]_vars

(***************************************************************************)
(* One call of findTemplateReferences on a line with one reference         *)
(***************************************************************************)

\* a caller is about to make the first call on new parsers
FirstCall(operation) ==
    /\ pc = "ready"
    /\ op = operation
    /\ name = ""
    /\ lastIndex = InitialLastIndex
    /\ instanceIndex = InitialInstanceIndex
    /\ observed = InitialLastIndex
    /\ matches = <<>>
    /\ result = <<>>
    /\ threw = FALSE
    /\ history = <<>>
    /\ calls = 0
    /\ frames = <<>>
    /\ Constructed(Configured)
    /\ ProviderConstructed

\* where the reference stands: the value of a th: or layout: attribute, a
\* link, a fragment expression, a literal substitution
ReferenceForms == {"replace", "insert", "decorate", "href", "fragment", "literal"}

\* what is written around the reference inside an attribute value
Wrappers == {"", "~{", "'"}

\* what is written before the template file
Prefixes == {"", "/", "//", "classpath:", "classpath:/", "file:", "~/"}

\* the template files referred to: two paths, and a preprocessed expression
TemplateFiles == {"fragments/header", "base", "__${view}__"}

\* the fragment selectors: none, a name, a name with parameters, a
\* preprocessed expression
Selectors ==
    {"", " :: header", " :: header(title='x')", "::nav", " :: __${part}__"}

ReferenceInputs ==
    [kind : {"reference"}, form : ReferenceForms, wrap : Wrappers,
     prefix : Prefixes, file : TemplateFiles, selector : Selectors]

\* the reference as it is written: prefix, template file, selector
Written(in) == in.prefix \o in.file \o in.selector

\* the reference with its wrapper
Wrapped(in) ==
    CASE in.wrap = "" -> Written(in)
      [] in.wrap = "~{" -> "~{" \o Written(in) \o "}"
      [] in.wrap = "'" -> "'" \o Written(in) \o "'"

\* what stands on the line before the reference as it is written
LineHead(in) ==
    CASE in.form = "replace" -> "<div th:replace=\""
      [] in.form = "insert" -> "<div th:insert=\""
      [] in.form = "decorate" -> "<html layout:decorate=\""
      [] in.form = "href" -> "<link th:href=\"@{"
      [] in.form = "fragment" -> "<div th:with=\"f=~{"
      [] in.form = "literal" -> "<a th:href=\"|"

LineTail(in) ==
    CASE in.form = "href" -> "}\">"
      [] in.form = "fragment" -> "}\">"
      [] in.form = "literal" -> "|\">"
      [] OTHER -> "\">"

\* only an attribute value takes a wrapper
ReferenceLine(in) ==
    IF in.form \in {"replace", "insert", "decorate"}
    THEN LineHead(in) \o Wrapped(in) \o LineTail(in)
    ELSE LineHead(in) \o Written(in) \o LineTail(in)

ReferenceInit ==
    /\ input \in {in \in ReferenceInputs :
                      in.form \in {"replace", "insert", "decorate"} \/ in.wrap = ""}
    /\ text = ReferenceLine(input)
    /\ FirstCall("findTemplateReferences")

ReferenceSpec == ReferenceInit /\ [][FindTemplateReferences]_vars

(***************************************************************************)
(* One call of findTemplateReferences on a line whose reference attribute  *)
(* holds a conditional or an Elvis expression                              *)
(***************************************************************************)

\* the shapes: ${cond} ? 'A' : 'B', ${cond} ? 'A' : _, ${cond} ?: 'A'
Shapes == {"conditional", "noop", "elvis"}

\* the conditions: a variable, a method call, a condition with a default
Conditions == {"${admin}", "${user.isAdmin()}", "${role ?: guest}"}

\* a quoted literal branch: its template file, with or without a leading
\* slash and a fragment selector
Branches ==
    [file : {"admin/main", "user/main"}, prefix : {"", "/"},
     selector : {"", " :: content"}]

\* the branch as it is written between the quotes
BranchText(b) == b.prefix \o b.file \o b.selector

\* the blanks around the operators
Gaps == {"", " "}

ConditionalInputs ==
    [kind : {"conditional"}, shape : Shapes, form : {"replace", "insert"},
     cond : Conditions, a : Branches, b : Branches, gap : Gaps]

\* the value of the attribute
ConditionalText(in) ==
    CASE in.shape = "conditional" ->
             in.cond \o in.gap \o "?" \o in.gap \o "'" \o BranchText(in.a) \o "'"
             \o in.gap \o ":" \o in.gap \o "'" \o BranchText(in.b) \o "'"
      [] in.shape = "noop" ->
             in.cond \o in.gap \o "?" \o in.gap \o "'" \o BranchText(in.a) \o "'"
             \o in.gap \o ":" \o in.gap \o "_"
      [] in.shape = "elvis" ->
             in.cond \o in.gap \o "?:" \o in.gap \o "'" \o BranchText(in.a) \o "'"

\* the quoted literal branches of the value
QuotedBranches(in) == IF in.shape = "conditional" THEN {in.a, in.b} ELSE {in.a}

\* only the conditional has a second branch
ConditionalInit ==
    /\ input \in {in \in ConditionalInputs :
                      in.shape = "conditional" \/ in.b = in.a}
    /\ text = LineHead(input) \o ConditionalText(input) \o LineTail(input)
    /\ FirstCall("findTemplateReferences")

ConditionalSpec == ConditionalInit /\ [][FindTemplateReferences]_vars

(***************************************************************************)
(* One call of findTemplateReferences on a line with two references        *)
(***************************************************************************)

\* a reference of the line: its form, its template file and its selector
PairItems ==
    [kind : {"reference"}, form : ReferenceForms, wrap : {""}, prefix : {""},
     file : {"fragments/header", "base"}, selector : {"", " :: header"}]

\* two references to different template files, one after the other
PairInputs ==
    {in \in [kind : {"pair"}, first : PairItems, second : PairItems] :
         in.first.file /= in.second.file}

PairInit ==
    /\ input \in PairInputs
    /\ text = ReferenceLine(input.first) \o ReferenceLine(input.second)
    /\ FirstCall("findTemplateReferences")

PairSpec == PairInit /\ [][FindTemplateReferences]_vars

(***************************************************************************)
(* One call of findTemplateReferences on a line with a malformed reference *)
(***************************************************************************)

\* the characters a path must not hold
InvalidCharacters == {"<", ">", ":", "\"", "|", "?", "*"}

\* where the character stands in the path
Places == {"start", "middle", "end"}

\* a path that holds the character c
PathWith(c, place) ==
    CASE place = "start" -> c \o "header"
      [] place = "middle" -> "fragments/" \o c \o "header"
      [] place = "end" -> "fragments/header" \o c

\* the references that name no template: nothing, the separator alone
Empties == {"", "::", " :: "}

\* a double quote ends the value of an attribute, and a quote at either end
\* of a reference is stripped as a surrounding quote, so that a path can hold
\* one inside a link only; a link holds at least one character
MalformedInputs ==
    {in \in [kind : {"invalid"}, form : {"replace", "insert", "decorate", "href"},
             char : InvalidCharacters, place : Places,
             selector : {"", " :: content"}] :
         in.char = "\"" => in.form = "href" /\ in.place = "middle"}
    \cup [kind : {"empty"}, form : {"replace", "insert", "decorate"},
          char : Empties, place : {"all"}, selector : {""}]

\* the reference as it is written
MalformedText(in) ==
    IF in.kind = "empty" THEN in.char
    ELSE PathWith(in.char, in.place) \o in.selector

MalformedInit ==
    /\ input \in MalformedInputs
    /\ text = LineHead(input) \o MalformedText(input) \o LineTail(input)
    /\ FirstCall("findTemplateReferences")

MalformedSpec == MalformedInit /\ [][FindTemplateReferences]_vars

(***************************************************************************)
(* The server manager and its process manager                              *)
(*                                                                         *)
(* start, stop and restart are async functions.  A call runs until its     *)
(* next await; what follows the await runs later, as a continuation.  The  *)
(* continuations that are ready wait in one queue and run one after the    *)
(* other, each until its own next await; a command, a timer or an event of *)
(* a child process is handled only when that queue is empty, while a       *)
(* promise may settle at any time.                                         *)
(***************************************************************************)

\* the number of start, stop and restart calls made in one behaviour
MaxServerCalls == 2

\* the commands thymelab.startServer, stopServer and restartServer
Methods == {"start", "stop", "restart"}

\* the whole state as one value, for the operators below
S ==
    [currentState |-> currentState, context |-> context, config |-> config,
     process |-> process, healthCheckInterval |-> healthCheckInterval,
     children |-> children, tasks |-> tasks, queue |-> queue]

\* the next state is T
Becomes(T) ==
    /\ currentState' = T.currentState
    /\ context' = T.context
    /\ config' = T.config
    /\ process' = T.process
    /\ healthCheckInterval' = T.healthCheckInterval
    /\ children' = T.children
    /\ tasks' = T.tasks
    /\ queue' = T.queue
    /\ UNCHANGED <<parserVars, providerVars>>

\* the calls that have not settled
Pending(T) == {a \in DOMAIN T.tasks : T.tasks[a].out = ""}

\* the start, stop and restart calls that have not settled
Busy(T) == {a \in Pending(T) : T.tasks[a].m \in Methods}

\* the calls whose continuation is in the queue
Queued(T) == {T.queue[i] : i \in 1..Len(T.queue)}

\* a call of method m begins: where it is (at), the state setState is
\* setting (tgt) and what follows it (k), what follows cleanup (ck), the
\* child cleanup is ending (kid), the error caught (err), the error
\* startServer rejected with (rejection), the outcome of the promise awaited
\* (ok); and, for the properties, the states it has set, its calls of
\* startServer and stopServer, the state it found, the settings it has read
\* last, whether it has run alone, how it settled and the state it left
Called(T, m) ==
    [m |-> m, at |-> "", tgt |-> "", k |-> "", ck |-> "", kid |-> 0,
     err |-> "", rejection |-> "", ok |-> TRUE,
     sets |-> <<>>, starts |-> 0, stops |-> 0,
     before |-> T.currentState, settings |-> T.config, alone |-> Busy(T) = {},
     out |-> "", final |-> ""]

\* the smallest number that names no call
Fresh(T) == CHOOSE a \in 1..(Cardinality(DOMAIN T.tasks) + 1) : a \notin DOMAIN T.tasks

\* a call of method m is added as number a; a command that arrives while
\* others run overlaps them
Begin(T, a, m) ==
    [T EXCEPT !.tasks =
        [b \in DOMAIN T.tasks \cup {a} |->
            IF b = a THEN Called(T, m)
            ELSE IF m \in Methods /\ b \in Busy(T)
                 THEN [T.tasks[b] EXCEPT !.alone = FALSE]
                 ELSE T.tasks[b]]]

\* await of a promise that something outside settles
Wait(T, a, at) == [T EXCEPT !.tasks[a].at = at]

\* await of a promise that is settled already: the continuation is ready
Yield(T, a, at) ==
    [T EXCEPT !.tasks[a].at = at, !.tasks[a].ok = TRUE, !.queue = Append(@, a)]

\* the call settles: a command's outcome is kept, a callback is forgotten
finish(T, a, out) ==
    IF T.tasks[a].m \in Methods
    THEN [T EXCEPT !.tasks[a].at = "", !.tasks[a].tgt = "", !.tasks[a].k = "",
                   !.tasks[a].ck = "", !.tasks[a].kid = 0, !.tasks[a].ok = TRUE,
                   !.tasks[a].out = out, !.tasks[a].final = T.currentState]
    ELSE [T EXCEPT !.tasks = [b \in DOMAIN T.tasks \ {a} |-> T.tasks[b]]]

\* ProcessManager.handleError: the message of the error it throws
handleError(message, operation) == "Failed to " \o operation \o ": " \o message

\* the error of cleanup when the port still answers
StillRunning == "Process is still running on port 8080"

\* makeRequest('/actuator/health') is answered: a child is alive and serves
Up(T) == \E c \in 1..Len(T.children) : T.children[c].alive /\ T.children[c].healthy

\* ServerManager.setState up to its first await
setState(T, a, state, k) ==
    [T EXCEPT !.currentState = state,
              !.tasks[a].sets = Append(@, state),
              !.tasks[a].tgt = state, !.tasks[a].k = k,
              !.tasks[a].at = "setContext1"]

\* a catch that throws the error again and leaves the state as it is
reject_rethrow(T, a) == finish(T, a, "rejected")

\* a rejection reaches the command: the catch of start and of restart sets
\* Stopped and throws the error again, stop has no catch
reject(T, a) ==
    IF T.tasks[a].m \in {"start", "restart"}
    THEN setState(T, a, "Stopped", "throw")
    ELSE finish(T, a, "rejected")

\* ProcessManager.cleanupResources
cleanupResources(T) ==
    [T EXCEPT !.healthCheckInterval = "none",
              !.children = IF T.process = 0 THEN @
                           ELSE [@ EXCEPT ![T.process].listening = FALSE]]

\* ProcessManager.cleanup up to its first await: after cleanupResources the
\* process is sent SIGTERM and its exit awaited, or, with no process, the
\* port is asked
cleanup(T, a, ck) ==
    Wait([cleanupResources(T) EXCEPT !.tasks[a].ck = ck,
                                     !.tasks[a].kid = T.process],
         a, IF T.process # 0 THEN "exit" ELSE "request")

\* cleanup's finally, and its request to the port
processEnded(T, a) == Wait([T EXCEPT !.process = 0], a, "request")

\* ProcessManager.startHealthCheck
startHealthCheck(T) ==
    [cleanupResources(T) EXCEPT !.healthCheckInterval = "startup"]

\* startServer: spawn, the 'close' listener, the first health request
spawn(T, a) ==
    Wait([T EXCEPT !.children = Append(@, [alive |-> TRUE, healthy |-> FALSE,
                                           listening |-> TRUE]),
                   !.process = Len(T.children) + 1], a, "health")

\* ProcessManager.startServer up to its first await: with a process it
\* throws and its catch cleans up; else it awaits downloadJar, which returns
\* at once when the JAR is there
startServer(T, a) ==
    IF T.process # 0
    THEN cleanup([T EXCEPT !.tasks[a].starts = @ + 1,
                           !.tasks[a].err = "Server is already running"],
                 a, "startServer")
    ELSE IF T.config.jar
    THEN Yield([T EXCEPT !.tasks[a].starts = @ + 1], a, "jar")
    ELSE Wait([T EXCEPT !.tasks[a].starts = @ + 1], a, "download")

\* startServer after await this.downloadJar()
downloaded(T, a) ==
    IF T.tasks[a].ok
    THEN spawn(T, a)
    ELSE cleanup([T EXCEPT !.tasks[a].err =
                     handleError("Download cancelled", "download JAR file")],
                 a, "startServer")

\* a command that returns after startServer without setState(Running)
started_unset(T, a) == finish(startHealthCheck(T), a, "returned")

\* startServer after the health promise, and the caller after startServer:
\* start and restart both go on with setState(Running) and return
started(T, a) == setState(startHealthCheck(T), a, "Running", "return")

\* startServer's catch after await this.cleanup(): cleanup's own error if it
\* threw, else handleError's; the command catches it
startFailed(T, a, error) ==
    reject([T EXCEPT !.tasks[a].err = error, !.tasks[a].rejection = error], a)

\* ProcessManager.stopServer up to its first await: without a process it
\* throws, and handleError throws in its catch
stopServer(T, a) ==
    IF T.process = 0
    THEN reject([T EXCEPT !.tasks[a].stops = @ + 1,
                          !.tasks[a].err =
                              handleError("Server is not running", "stop server")],
                a)
    ELSE cleanup([T EXCEPT !.tasks[a].stops = @ + 1], a, "stopServer")

\* a stop that returns after stopServer without setState(Stopped)
stopped_unset(T, a) ==
    IF T.tasks[a].m = "stop"
    THEN finish(T, a, "returned")
    ELSE Wait(T, a, "timer")

\* the caller after stopServer: stop sets Stopped and returns, restart waits
\* a second
stopped(T, a) ==
    IF T.tasks[a].m = "stop"
    THEN setState(T, a, "Stopped", "return")
    ELSE Wait(T, a, "timer")

\* after cleanup's request to the port: an answer makes cleanup throw
cleaned(T, a) ==
    IF T.tasks[a].ck = "startServer"
    THEN startFailed(T, a, IF T.tasks[a].ok THEN StillRunning
                           ELSE handleError(T.tasks[a].err, "start server"))
    ELSE IF T.tasks[a].ck = "stopServer"
    THEN IF T.tasks[a].ok
         THEN reject([T EXCEPT !.tasks[a].err =
                         handleError(StillRunning, "stop server")], a)
         ELSE stopped(T, a)
    ELSE finish(T, a, IF T.tasks[a].ok THEN "rejected" ELSE "returned")

\* ServerManager.start up to its first await
start(T, a) ==
    IF ~T.config.jar THEN Wait(T, a, "downloadJar")
    ELSE IF ~T.config.dirs THEN Wait(T, a, "message")
    ELSE setState(T, a, "Starting", "startServer")

\* start after await this.processManager.downloadJar()
jarAsked(T, a) ==
    IF T.tasks[a].ok
    THEN finish(T, a, "returned")
    ELSE reject([T EXCEPT !.tasks[a].err =
                    handleError("Download cancelled", "download JAR file")], a)

\* ServerManager.stop up to its first await
stop(T, a) == stopServer(T, a)

\* a restart that starts the server without stopping it first
restart_startFirst(T, a) == setState(T, a, "Starting", "startServer")

\* ServerManager.restart up to its first await
restart(T, a) == setState(T, a, "Starting", "stopServer")

\* restart after its second of waiting
waited(T, a) ==
    IF ~T.config.dirs
    THEN setState([T EXCEPT !.tasks[a].settings = T.config], a, "Stopped", "message")
    ELSE startServer([T EXCEPT !.tasks[a].settings = T.config], a)

\* the caller after await this.setState(...)
stateSet(T, a) ==
    CASE T.tasks[a].k = "startServer" -> startServer(T, a)
      [] T.tasks[a].k = "stopServer" -> stopServer(T, a)
      [] T.tasks[a].k = "message" -> Wait(T, a, "message")
      [] T.tasks[a].k = "throw" -> finish(T, a, "rejected")
      [] OTHER -> finish(T, a, "returned")

\* a callback of the health timer after await this.performHealthCheck():
\* the first timer gives way to the periodic one when the server is up, the
\* periodic one cleans up when it is not
checked(T, a) ==
    IF T.tasks[a].m = "checkHealth"
    THEN finish(IF T.tasks[a].ok
                THEN [T EXCEPT !.healthCheckInterval = "periodic"]
                ELSE T, a, "returned")
    ELSE IF T.tasks[a].ok
         THEN finish(T, a, "returned")
         ELSE cleanup(T, a, "callback")

\* the continuation of call a runs until its next await
resume(T, a) ==
    CASE T.tasks[a].at = "setContext1" -> Wait(T, a, "setContext2")
      [] T.tasks[a].at = "setContext2" -> stateSet(T, a)
      [] T.tasks[a].at \in {"jar", "download"} -> downloaded(T, a)
      [] T.tasks[a].at = "health" -> started(T, a)
      [] T.tasks[a].at = "exit" -> processEnded(T, a)
      [] T.tasks[a].at = "request" -> cleaned(T, a)
      [] T.tasks[a].at = "timer" -> waited(T, a)
      [] T.tasks[a].at = "downloadJar" -> jarAsked(T, a)
      [] T.tasks[a].at = "check" -> checked(T, a)
      [] OTHER -> finish(T, a, "returned")

\* call a awaits a promise that has not settled
Awaits(a, ats) ==
    /\ a \in Pending(S)
    /\ a \notin Queued(S)
    /\ tasks[a].at \in ats

\* the promise of call a settles in state T: its continuation is ready
Settled(T, a) == Becomes([T EXCEPT !.queue = Append(@, a)])

\* the start, stop and restart calls made so far
Calls == Cardinality({a \in DOMAIN tasks : tasks[a].m \in Methods})

\* the command thymelab.startServer
Start ==
    /\ queue = <<>>
    /\ Becomes(start(Begin(S, Fresh(S), "start"), Fresh(S)))

\* the command thymelab.stopServer
Stop ==
    /\ queue = <<>>
    /\ Becomes(stop(Begin(S, Fresh(S), "stop"), Fresh(S)))

\* the command thymelab.restartServer
Restart ==
    /\ queue = <<>>
    /\ Becomes(restart(Begin(S, Fresh(S), "restart"), Fresh(S)))

\* the first continuation in the queue runs until its next await
Resume ==
    /\ queue # <<>>
    /\ Becomes(resume([S EXCEPT !.queue = Tail(@)], Head(queue)))

\* VS Code has set a context key for setState
SetContext(a) ==
    /\ Awaits(a, {"setContext1", "setContext2"})
    /\ Settled(IF tasks[a].at = "setContext1"
               THEN [S EXCEPT !.context.isStarting = tasks[a].tgt = "Starting"]
               ELSE [S EXCEPT !.context.isRunning = tasks[a].tgt = "Running"], a)

\* downloadJar without a JAR: the user and the network bring one, or not
Downloaded(a, ok) ==
    /\ Awaits(a, {"download", "downloadJar"})
    /\ Settled([S EXCEPT !.tasks[a].ok = ok], a)

\* a health request of startServer is answered UP
Healthy(a) ==
    /\ Awaits(a, {"health"})
    /\ Up(S)
    /\ Settled(S, a)

\* the process cleanup is ending is gone, by SIGTERM or after five seconds by
\* SIGKILL
Exited(a) ==
    /\ Awaits(a, {"exit"})
    /\ Settled([S EXCEPT !.children[tasks[a].kid].alive = FALSE,
                         !.children[tasks[a].kid].healthy = FALSE], a)

\* a request to the port is answered or fails
Responded(a) ==
    /\ Awaits(a, {"request", "check"})
    /\ Settled([S EXCEPT !.tasks[a].ok = Up(S)], a)

\* restart's second is over
Elapsed(a) ==
    /\ Awaits(a, {"timer"})
    /\ Settled(S, a)

\* the user closes the message about the directories
Dismissed(a) ==
    /\ Awaits(a, {"message"})
    /\ Settled(S, a)

\* a child process has come up and answers on the port
Serve(c) ==
    /\ children[c].alive
    /\ ~children[c].healthy
    /\ Becomes([S EXCEPT !.children[c].healthy = TRUE])

\* a child process ends on its own
Exit(c) ==
    /\ children[c].alive
    /\ Becomes([S EXCEPT !.children[c].alive = FALSE,
                         !.children[c].healthy = FALSE])

\* the 'close' event of a child that has ended: the listener startServer
\* added calls cleanup
Close(c) ==
    /\ queue = <<>>
    /\ ~children[c].alive
    /\ children[c].listening
    /\ Becomes(cleanup(Begin([S EXCEPT !.children[c].listening = FALSE],
                             Fresh(S), "close"), Fresh(S), "callback"))

\* the health timer fires: its callback asks for the health
Tick ==
    /\ queue = <<>>
    /\ healthCheckInterval # "none"
    /\ \A a \in DOMAIN tasks : tasks[a].m \notin {"checkHealth", "monitor"}
    /\ Becomes(Wait(Begin(S, Fresh(S),
                          IF healthCheckInterval = "startup" THEN "checkHealth"
                          ELSE "monitor"), Fresh(S), "check"))

\* the server manager is constructed in a workspace with any settings; the
\* analyzers are not called
ServerInit ==
    /\ pc = "done"
    /\ op = ""
    /\ input = [kind |-> "none"]
    /\ text = ""
    /\ name = ""
    /\ lastIndex = InitialLastIndex
    /\ instanceIndex = InitialInstanceIndex
    /\ observed = InitialLastIndex
    /\ matches = <<>>
    /\ result = <<>>
    /\ threw = FALSE
    /\ history = <<>>
    /\ calls = 0
    /\ frames = <<>>
    /\ \E settings \in Settings : Constructed(settings)
    /\ ProviderConstructed

ServerNext ==
    \/ Calls < MaxServerCalls /\ Start
    \/ Calls < MaxServerCalls /\ Stop
    \/ Calls < MaxServerCalls /\ Restart
    \/ Resume
    \/ \E a \in DOMAIN tasks : SetContext(a)
    \/ \E a \in DOMAIN tasks, ok \in BOOLEAN : Downloaded(a, ok)
    \/ \E a \in DOMAIN tasks : Healthy(a)
    \/ \E a \in DOMAIN tasks : Exited(a)
    \/ \E a \in DOMAIN tasks : Responded(a)
    \/ \E a \in DOMAIN tasks : Elapsed(a)
    \/ \E a \in DOMAIN tasks : Dismissed(a)
    \/ \E c \in DOMAIN children : Serve(c)
    \/ \E c \in DOMAIN children : Exit(c)
    \/ \E c \in DOMAIN children : Close(c)
    \/ Tick

ServerSpec == ServerInit /\ [][ServerNext]_vars

(***************************************************************************)
(* The server manager with commands given one after the other, in a        *)
(* workspace whose settings the user changes                               *)
(***************************************************************************)

\* the user edits thymelab.processor.jarPath or the thymelab.resources paths
ChangeSettings(settings) ==
    /\ queue = <<>>
    /\ settings # config
    /\ Becomes([S EXCEPT !.config = settings])

SettingsNext ==
    \/ \E settings \in Settings : ChangeSettings(settings)
    \/ Busy(S) = {} /\ Calls < MaxServerCalls /\ Start
    \/ Busy(S) = {} /\ Calls < MaxServerCalls /\ Stop
    \/ Busy(S) = {} /\ Calls < MaxServerCalls /\ Restart
    \/ Resume
    \/ \E a \in DOMAIN tasks : SetContext(a)
    \/ \E a \in DOMAIN tasks, ok \in BOOLEAN : Downloaded(a, ok)
    \/ \E a \in DOMAIN tasks : Healthy(a)
    \/ \E a \in DOMAIN tasks : Exited(a)
    \/ \E a \in DOMAIN tasks : Responded(a)
    \/ \E a \in DOMAIN tasks : Elapsed(a)
    \/ \E a \in DOMAIN tasks : Dismissed(a)
    \/ \E c \in DOMAIN children : Serve(c)
    \/ \E c \in DOMAIN children : Exit(c)
    \/ \E c \in DOMAIN children : Close(c)
    \/ Tick

SettingsSpec == ServerInit /\ [][SettingsNext]_vars

\* one start() and what follows it: the continuations, the promises, the
\* child process, its 'close' event and the health timer
StartNext ==
    \/ tasks = <<>> /\ Start
    \/ Resume
    \/ \E a \in DOMAIN tasks : SetContext(a)
    \/ \E a \in DOMAIN tasks, ok \in BOOLEAN : Downloaded(a, ok)
    \/ \E a \in DOMAIN tasks : Healthy(a)
    \/ \E a \in DOMAIN tasks : Exited(a)
    \/ \E a \in DOMAIN tasks : Responded(a)
    \/ \E a \in DOMAIN tasks : Dismissed(a)
    \/ \E c \in DOMAIN children : Serve(c)
    \/ \E c \in DOMAIN children : Exit(c)
    \/ \E c \in DOMAIN children : Close(c)
    \/ Tick

\* what the event loop, VS Code, the user, the network, the operating system
\* and the timers do in the end: a ready continuation runs, a command, a
\* dialog, a download and a request are answered, a process that was sent
\* SIGTERM and then SIGKILL ends, a 'close' event is delivered, a timer
\* fires, and the health request repeated every second meets a server that
\* stays up.  Nothing makes the child process come up, or end on its own.
StartFairness ==
    /\ WF_vars(Resume)
    /\ WF_vars(\E a \in DOMAIN tasks : SetContext(a))
    /\ WF_vars(\E a \in DOMAIN tasks, ok \in BOOLEAN : Downloaded(a, ok))
    /\ WF_vars(\E a \in DOMAIN tasks : Healthy(a))
    /\ WF_vars(\E a \in DOMAIN tasks : Exited(a))
    /\ WF_vars(\E a \in DOMAIN tasks : Responded(a))
    /\ WF_vars(\E a \in DOMAIN tasks : Dismissed(a))
    /\ WF_vars(\E c \in DOMAIN children : Close(c))
    /\ WF_vars(Tick)

StartSpec == ServerInit /\ [][StartNext]_vars /\ StartFairness

\* no stop() has been called
NoStop == \A a \in DOMAIN tasks : tasks[a].m # "stop"

\* every start() in progress awaits the health of the process it spawned
AwaitHealth == Busy(S) # {} /\ \A a \in Busy(S) : tasks[a].at = "health"

\* start commands, which may overlap, and then one stop while the starts in
\* progress wait for the server to become healthy, in a workspace that is
\* configured; no command follows the stop, and a child process ends only
\* when cleanup ends it
StopNext ==
    \/ NoStop /\ Calls < MaxServerCalls /\ Start
    \/ NoStop /\ AwaitHealth /\ Stop
    \/ Resume
    \/ \E a \in DOMAIN tasks : SetContext(a)
    \/ \E a \in DOMAIN tasks : Healthy(a)
    \/ \E a \in DOMAIN tasks : Exited(a)
    \/ \E a \in DOMAIN tasks : Responded(a)
    \/ \E c \in DOMAIN children : Serve(c)
    \/ Tick

StopSpec == Idle /\ [][StopNext]_vars

(***************************************************************************)
(* The definition provider's cache of template files                       *)
(***************************************************************************)

\* ThymeleafDefinitionProvider.CACHE_TTL, in milliseconds
CACHE_TTL == 5000

\* the step of the clock, in milliseconds
Second == 1000

\* the time one behaviour lasts, in milliseconds
MaxElapsed == 8000

\* the most getFiles calls that await findFiles at once
MaxLookups == 2

\* the values the setting thymelab.resources.templatePath takes
TemplatePaths == {"templates", "views"}

\* time passes
Advance ==
    /\ clock - Launched < MaxElapsed
    /\ clock' = clock + Second
    /\ UNCHANGED <<fileCache, lastCacheUpdate, lookups, served>>
    /\ UNCHANGED <<parserVars, serverVars>>

\* ThymeleafDefinitionProvider.clearCache, on files created or deleted
clearCache ==
    /\ fileCache' = <<>>
    /\ lastCacheUpdate' = 0
    /\ UNCHANGED <<clock, lookups, served>>
    /\ UNCHANGED <<parserVars, serverVars>>

\* ThymeleafDefinitionProvider.getFiles up to its return or its await: the
\* cached list is returned, or [] without a workspace folder, or findFiles
\* is awaited with the time the call began
getFiles(templatePath, workspaceFolder) ==
    /\ IF templatePath \in DOMAIN fileCache /\ clock - lastCacheUpdate < CACHE_TTL
       THEN /\ served' = [kind |-> "cached", templatePath |-> templatePath,
                          stored |-> fileCache[templatePath], now |-> clock]
            /\ UNCHANGED lookups
       ELSE IF ~workspaceFolder
       THEN /\ served' = [kind |-> "none"]
            /\ UNCHANGED lookups
       ELSE /\ Len(lookups) < MaxLookups
            /\ served' = [kind |-> "none"]
            /\ lookups' = Append(lookups, [templatePath |-> templatePath,
                                           now |-> clock])
    /\ UNCHANGED <<fileCache, lastCacheUpdate, clock>>
    /\ UNCHANGED <<parserVars, serverVars>>

\* findFiles resolves for the i-th waiting getFiles: the list is stored
\* under its template path and lastCacheUpdate becomes the time the call
\* began
found(i) ==
    /\ fileCache' = [p \in DOMAIN fileCache \cup {lookups[i].templatePath} |->
                        IF p = lookups[i].templatePath THEN clock
                        ELSE fileCache[p]]
    /\ lastCacheUpdate' = lookups[i].now
    /\ lookups' = [j \in 1..(Len(lookups) - 1) |->
                      IF j < i THEN lookups[j] ELSE lookups[j + 1]]
    /\ UNCHANGED <<clock, served>>
    /\ UNCHANGED <<parserVars, serverVars>>

ProviderNext ==
    \/ Advance
    \/ clearCache
    \/ \E templatePath \in TemplatePaths, workspaceFolder \in BOOLEAN :
           getFiles(templatePath, workspaceFolder)
    \/ \E i \in DOMAIN lookups : found(i)

ProviderSpec == Idle /\ [][ProviderNext]_vars

(***************************************************************************)
(* One run of extractVariablesFromExpression, call by call                 *)
(***************************************************************************)

\* the longest expression written out of ExpressionChars
MaxExprLen == 4

\* a letter, a blank, the operators of a ternary and an Elvis expression,
\* the parentheses and the comma of a call, a quote
ExpressionChars == {"a", " ", "?", ":", "(", ")", ",", "'"}

\* every string of at most n of these characters
RECURSIVE StringsUpTo(_)
StringsUpTo(n) ==
    IF n = 0 THEN {""}
    ELSE LET shorter == StringsUpTo(n - 1)
         IN shorter \cup {x \o c : x \in shorter, c \in ExpressionChars}

\* expressions whose calls nest: parameters of security functions and of
\* methods, ternary and Elvis operands, one inside the other
NestedExpressions ==
    {"hasRole(a.f(b ? c : d), e ?: f)",
     "a ? b.m(c ?: d) : e ? f : g",
     "u.get(hasAnyRole(x, y) ? 'p' : q.r(s, 1))",
     "a.b(c.d(e.f(g))) ?: h(i ?: j)"}

Expressions == StringsUpTo(MaxExprLen) \cup NestedExpressions

\* a caller is about to call extractVariablesFromExpression(text)
RecursionInit ==
    /\ input = [kind |-> "expression"]
    /\ text \in Expressions
    /\ FirstCall("extractVariablesFromExpression")

\* the caller's call begins
Enter ==
    /\ pc = "ready"
    /\ frames = <<>>
    /\ frames' = <<Frame(text, "caller")>>
    /\ pc' = "running"
    /\ UNCHANGED <<op, input, text, name, lastIndex, instanceIndex, observed,
                   matches, result, threw, history, calls>>
    /\ UNCHANGED <<serverVars, providerVars>>

\* the innermost call in progress makes one of its calls of the function
Recurse ==
    /\ pc = "running"
    /\ \E k \in DOMAIN recursiveCalls(frames[Len(frames)].expression) :
           frames' = Append(frames,
                            recursiveCalls(frames[Len(frames)].expression)[k])
    /\ UNCHANGED <<pc, op, input, text, name, lastIndex, instanceIndex, observed,
                   matches, result, threw, history, calls>>
    /\ UNCHANGED <<serverVars, providerVars>>

\* the innermost call in progress returns; the caller's call returns the
\* pairs of the expression
Return ==
    /\ pc = "running"
    /\ frames' = SubSeq(frames, 1, Len(frames) - 1)
    /\ IF Len(frames) = 1
       THEN /\ pc' = "done"
            /\ result' = extractVariablesFromExpression(Def(text))
            /\ calls' = calls + 1
       ELSE UNCHANGED <<pc, result, calls>>
    /\ UNCHANGED <<op, input, text, name, lastIndex, instanceIndex, observed,
                   matches, threw, history>>
    /\ UNCHANGED <<serverVars, providerVars>>

RecursionNext ==
    \/ Enter
    \/ Recurse
    \/ Return

RecursionSpec == RecursionInit /\ [][RecursionNext]_vars

(***************************************************************************)
(* Properties of the calls                                                 *)
(***************************************************************************)

\* C1: every call of findAllVariableMatches begins with each class-level
\* pattern object at its initial scan position (lastIndex 0), whatever calls
\* came before it: the positions a call began with are all 0, and so are the
\* positions a requested call is about to begin with.
ScanPositionsReset ==
    \A p \in StaticPatterns : observed[p] = 0 /\ lastIndex[p] = 0

\* a second call of findAllVariableMatches has returned matches, after an
\* earlier call on another text that found matches too
SecondCallAfterMatches ==
    /\ pc = "done"
    /\ op = "findAllVariableMatches"
    /\ result /= <<>>
    /\ \E i \in 1..(Len(history) - 1) :
          /\ history[i].op = "findAllVariableMatches"
          /\ history[i].text /= text
          /\ history[i].result /= <<>>

\* the entry points the idempotence law is about
IdempotentOps == {"findAllVariableMatches", "findTemplateReferences"}

\* C2: two calls of findAllVariableMatches on the same text return the same
\* pairs in the same order, whatever calls come between them, and so do two
\* calls of findTemplateReferences on the same line.
Idempotent ==
    \A i, j \in 1..Len(history) :
        /\ history[i].op \in IdempotentOps
        /\ history[i].op = history[j].op
        /\ history[i].text = history[j].text
        => history[i].result = history[j].result

\* findAllVariableMatches was called on a text, then another analyzer ran
\* over the class-level patterns, then the first call was repeated
RepeatedAcrossOtherCall ==
    /\ Len(history) = 3
    /\ history[1].op = "findAllVariableMatches"
    /\ history[1].result /= <<>>
    /\ history[2].op = "findVariableReferences"
    /\ history[3].op = "findAllVariableMatches"
    /\ history[3].text = history[1].text

\* C3: no entry point throws, whatever its input.
NeverThrows == \A i \in 1..Len(history) : ~history[i].threw

(***************************************************************************)
(* Properties of one call of findAllVariableMatches                        *)
(***************************************************************************)

\* the variablePaths of the array returned
Paths == {result[k][2] : k \in 1..Len(result)}

\* the pairs of the array returned
Pairs_returned == {result[k] : k \in 1..Len(result)}

\* the call on a text that holds a chain in one of the given forms has returned
Analyzed(forms) ==
    pc = "done" /\ input.kind = "expression" /\ input.form \in forms

\* s1.s2.....sn
Prefix(segs, n) == Join(SubSeq(segs, 1, n), ".")

\* C4: a text whose only expression is preceded by a backslash yields the
\* empty array: neither the path of the escaped expression nor any prefix or
\* sub-path of it is returned.
EscapedExcluded == Analyzed({"escaped", "escapedLiteral"}) => result = <<>>

\* the reserved words of the table: and, or, not, ..., size, length
ReservedTable == reservedWords \ securityFunctions

\* every non-empty prefix of the chain is returned with ${chain} as sourceText
AllPrefixesReturned ==
    \A n \in 1..Len(input.segs) :
        <<"${" \o Join(input.segs, ".") \o "}", Prefix(input.segs, n)>>
            \in Pairs_returned

\* C5 as stated: for an unescaped ${s1.s2.....sN} whose segments are plain
\* identifiers, none of them a reserved word of the table, every prefix
\* s1, s1.s2, ..., s1.....sN is returned with that expression as sourceText.
ChainComplete ==
    /\ Analyzed({"variable", "attribute"})
    /\ \A k \in 1..Len(input.segs) : input.segs[k] \notin ReservedTable
    => AllPrefixesReturned

\* the words the analyzer holds reserved, security names among them, in
\* lower case
ReservedLowerCase == {ToLowerCase(w) : w \in reservedWords}

\* no segment is, whatever its case, a word the analyzer holds reserved
PlainSegments(segs) ==
    \A k \in 1..Len(segs) : ToLowerCase(segs[k]) \notin ReservedLowerCase

\* C5, amended: for an unescaped ${s1.s2.....sN} whose segments are plain
\* identifiers, none of them - in any case - a reserved word or a security
\* function name of the analyzer's reserved-word set, every prefix
\* s1, s1.s2, ..., s1.....sN is returned with that expression as sourceText.
PlainChainComplete ==
    Analyzed({"variable", "attribute"}) /\ PlainSegments(input.segs)
    => AllPrefixesReturned

\* a chain of the most plain segments was analyzed inside an attribute
LongPlainChainAnalyzed ==
    /\ Analyzed({"attribute"})
    /\ PlainSegments(input.segs)
    /\ Len(input.segs) = MaxSegs
    /\ Len(result) >= MaxSegs

\* p is a shorter prefix of the chain q
ShorterPrefix(p, q) == StartsWith(q, p \o ".")

\* C6: among the matches that share a sourceText, a prefix of a chain never
\* comes after a longer prefix of the same chain, for ${...} and *{...}
\* expressions alike.
PrefixOrder ==
    pc = "done" =>
        \A i, j \in 1..Len(result) :
            i < j /\ result[i][1] = result[j][1]
            => ~ShorterPrefix(result[j][2], result[i][2])

\* the pairs of ps, every later repeat of an earlier pair removed
RECURSIVE FirstOccurrences(_, _)
FirstOccurrences(ps, earlier) ==
    IF ps = <<>> THEN <<>>
    ELSE IF ps[1] \in earlier THEN FirstOccurrences(Tail(ps), earlier)
    ELSE <<ps[1]>> \o FirstOccurrences(Tail(ps), earlier \cup {ps[1]})

\* C7: the array returned is the sequence of emitted pairs with every later
\* repeat of an already emitted pair removed and nothing else removed.
FirstOccurrenceWins == pc = "done" => result = FirstOccurrences(matches, {})

\* C8: for ${#strings.toUpperCase(args)}, no variablePath returned is the
\* #strings token, the name of the utility object or the object.method chain.
UtilityObjectExcluded ==
    Analyzed({"utility"})
    => Paths \cap {"#strings", "strings", "strings.toUpperCase"} = {}

\* the path, or its leading segment, is a reserved word, a security function
\* name, a quoted string literal or a numeric literal
ReservedOrLiteral(path) ==
    \E w \in {path, SplitStr(path, ".")[1]} :
        w \in reservedWords \/ isStringLiteral(w) \/ isNumericLiteral(w)

\* C9: no variablePath returned is, or has as its leading segment, a reserved
\* word, a security function name, a string literal or a numeric literal.
NoReservedLead == pc = "done" => \A p \in Paths : ~ReservedOrLiteral(p)

\* the method called on the result of the filter
TerminalMethod == IF input.form = "filterSize" THEN "size" ELSE "isEmpty"

\* C10: when collection.?[condition] is followed by a terminal no-argument
\* method call, no variablePath returned is or ends with the method name, and
\* the chain before the filter is still returned.
FilterMethodExcluded ==
    Analyzed({"filterSize", "filterIsEmpty"})
    => /\ \A p \in Paths :
            p /= TerminalMethod /\ ~EndsWith(p, "." \o TerminalMethod)
       /\ PlainSegments(input.segs) => Join(input.segs, ".") \in Paths

(***************************************************************************)
(* Properties of one call of findAllVariableMatches on a link              *)
(***************************************************************************)

\* the call on the text of a link has returned
LinkAnalyzed == pc = "done" /\ input.kind = "link"

\* C11: for a text whose only expression is a link @{path} or
\* @{path(params)} that holds no ${...}, the array returned is empty.
StaticLinkEmpty == LinkAnalyzed => result = <<>>

(***************************************************************************)
(* Properties of one call of findIteratorVariables                         *)
(***************************************************************************)

\* the call on a text whose binding names a status variable has returned
StatBindingScanned == pc = "done" /\ input.kind = "each" /\ input.stat /= ""

\* C12: for a binding th:each="itemVar, statVar : ${collectionExpr}" the
\* statVars map returned has the key statVar, with the value collectionExpr
\* that parentVars gives for itemVar.
StatVarMapped ==
    StatBindingScanned
    => /\ input.stat \in DOMAIN result.statVars
       /\ result.statVars[input.stat] = input.collection
       /\ result.parentVars[input.item] = input.collection

(***************************************************************************)
(* Properties of one call of findTemplateReferences                        *)
(***************************************************************************)

\* the call on a line has returned
LineScanned == pc = "done" /\ op = "findTemplateReferences"

\* the path has nothing left to strip
Stripped(path) ==
    /\ path /= ""
    /\ At(path, 0) \notin {"'", "\""}
    /\ At(path, Len(path) - 1) \notin {"'", "\""}
    /\ ~StartsWith(path, "@{")
    /\ ~StartsWith(path, "~{")
    /\ ~StartsWith(path, "classpath:")
    /\ ~StartsWith(path, "file:")
    /\ ~StartsWith(path, "~/")
    /\ ~StartsWith(path, "/")

\* C13: every path returned by findTemplateReferences is fully stripped: no
\* surrounding quote, no @{ or ~{ wrapper, no classpath: or file: prefix, no
\* leading ~/ and no leading /.
PathsStripped ==
    LineScanned => \A k \in 1..Len(result) : Stripped(result[k].path)

\* the line held one reference with a fragment selector
SelectorScanned == LineScanned /\ input.kind = "reference" /\ input.selector /= ""

\* C14: no path returned holds the separator :: or anything after it; for a
\* reference template :: selector(params), written with at most one of the
\* prefixes that are stripped, the path is the template file alone.
SelectorSplitOff ==
    /\ LineScanned => \A k \in 1..Len(result) : ~Includes(result[k].path, "::")
    /\ SelectorScanned /\ input.prefix /= "//"
       => \A k \in 1..Len(result) : result[k].path = input.file

\* line.substr(startIndex, path.length)
TextAt(line, ref) ==
    Substring(line, ref.startIndex, ref.startIndex + Len(ref.path))

\* C18: for every reference returned, startIndex is the offset of its path
\* in the line: the text of the line at startIndex is the path, and it
\* stands inside the attribute or expression that produced the reference.
StartIndexLocatesPath ==
    LineScanned /\ input.kind = "reference"
    => \A k \in 1..Len(result) :
          /\ TextAt(text, result[k]) = result[k].path
          /\ result[k].startIndex >= Len(LineHead(input))

\* the call on a line with a conditional or Elvis reference has returned
ConditionalScanned == LineScanned /\ input.kind = "conditional"

\* the paths of the references returned
ReferencePaths == {result[k].path : k \in 1..Len(result)}

\* C15: for a reference attribute whose value is ${cond} ? 'A' : 'B',
\* ${cond} ? 'A' : _ or ${cond} ?: 'D', each quoted literal branch has a
\* reference that carries its template file, and there is no other reference:
\* none for the token _.
BranchesReferenced ==
    ConditionalScanned
    => ReferencePaths = {b.file : b \in QuotedBranches(input)}

\* the call on a line with two references has returned
PairScanned == LineScanned /\ input.kind = "pair"

\* C16: the references returned are in the order of the line: a reference
\* to the template of the second reference of the line never comes before a
\* reference to the template of the first, whichever forms the two have.
SourceOrder ==
    PairScanned
    => \A i, j \in 1..Len(result) :
          i < j => ~(/\ result[i].path = input.second.file
                     /\ result[j].path = input.first.file)

\* the call on a line with a malformed reference has returned
MalformedScanned == LineScanned /\ input.kind \in {"invalid", "empty"}

\* C17: a reference that is empty, that is ::, or whose path holds one of
\* the characters < > : " | ? * yields no reference.
MalformedDropped == MalformedScanned => result = <<>>
(***************************************************************************)
(* Properties of ServerManager.start                                       *)
(***************************************************************************)

\* call a is a start() made in state Stopped with the JAR and the three
\* directories configured
StartedStopped(a) ==
    /\ a \in DOMAIN tasks
    /\ tasks[a].m = "start"
    /\ tasks[a].before = "Stopped"
    /\ config = Configured

\* a start() of that kind, with no other start, stop or restart call in
\* progress while it ran, has returned
StartReturned ==
    \E a \in DOMAIN tasks :
        StartedStopped(a) /\ tasks[a].alone /\ tasks[a].out = "returned"

\* C19: with the JAR and the three resource directories configured, a start()
\* called in state Stopped sets the state to Starting and then to Running and
\* to nothing else, and calls startServer exactly once, by the time it
\* returns; the state is Running when it returns, and until then the state is
\* the one it set last, as long as no other start, stop or restart call has
\* been in progress while it ran (such a call sets the state itself).
StartReachesRunning ==
    \A a \in DOMAIN tasks :
        /\ StartedStopped(a) /\ tasks[a].out = "returned" =>
               /\ tasks[a].sets = <<"Starting", "Running">>
               /\ tasks[a].starts = 1
               /\ tasks[a].alone => tasks[a].final = "Running"
        /\ StartedStopped(a) /\ tasks[a].out = "" /\ tasks[a].rejection = "" =>
               /\ tasks[a].sets \in {<<"Starting">>, <<"Starting", "Running">>}
               /\ tasks[a].starts <= 1
               /\ tasks[a].alone => currentState = tasks[a].sets[Len(tasks[a].sets)]

\* call a is a start() whose startServer has rejected
StartFailed(a) ==
    /\ a \in DOMAIN tasks
    /\ tasks[a].m = "start"
    /\ tasks[a].rejection # ""

\* a start() of that kind, with no other start, stop or restart call in
\* progress while it ran, has settled
StartRejected ==
    \E a \in DOMAIN tasks : StartFailed(a) /\ tasks[a].alone /\ tasks[a].out # ""

\* C20: a start() whose startServer rejects sets the state to Stopped and
\* rejects with the error of startServer, after one call of startServer and
\* with Stopped the last state it set; the state is Stopped from the rejection
\* of startServer until start() has rejected, never Starting or Running, as
\* long as no other start, stop or restart call has been in progress while it
\* ran (such a call sets the state itself).
StartFailureStops ==
    \A a \in DOMAIN tasks :
        /\ StartFailed(a) =>
               /\ tasks[a].out \in {"", "rejected"}
               /\ tasks[a].err = tasks[a].rejection
               /\ tasks[a].starts = 1
               /\ tasks[a].sets = <<"Starting", "Stopped">>
        /\ StartFailed(a) /\ tasks[a].alone =>
               IF tasks[a].out = "" THEN currentState = "Stopped"
               ELSE tasks[a].final = "Stopped"

(***************************************************************************)
(* Properties of ServerManager.stop and ServerManager.restart              *)
(***************************************************************************)

\* a stop() with no other start, stop or restart call in progress while it
\* ran has returned
StopReturned ==
    \E a \in DOMAIN tasks :
        tasks[a].m = "stop" /\ tasks[a].alone /\ tasks[a].out = "returned"

\* C21: stop() calls stopServer exactly once; when it has returned it has
\* set the state to Stopped and to nothing else, and the state is Stopped
\* when it returns, as long as no other start, stop or restart call has been
\* in progress while it ran (such a call sets the state itself).
StopReachesStopped ==
    \A a \in DOMAIN tasks :
        tasks[a].m = "stop" =>
            /\ tasks[a].stops = 1
            /\ tasks[a].starts = 0
            /\ tasks[a].out = "returned" =>
                   /\ tasks[a].sets = <<"Stopped">>
                   /\ tasks[a].alone => tasks[a].final = "Stopped"

\* what C22 says of a restart() that has returned
Restarted(a) ==
    /\ tasks[a].stops = 1
    /\ tasks[a].starts = 1
    /\ tasks[a].sets = <<"Starting", "Running">>
    /\ tasks[a].alone => tasks[a].final = "Running"

\* C22 as stated: a restart() that has returned has called stopServer once
\* and startServer once and has set Starting and then Running, and the state
\* is Running when it returns (as long as no other call has been in progress
\* while it ran), whatever the settings it found.
RestartReachesRunning ==
    \A a \in DOMAIN tasks :
        tasks[a].m = "restart" /\ tasks[a].out = "returned" => Restarted(a)

\* a restart() that found the directories configured, with no other start,
\* stop or restart call in progress while it ran, has returned
RestartReturned ==
    \E a \in DOMAIN tasks :
        /\ tasks[a].m = "restart"
        /\ tasks[a].settings.dirs
        /\ tasks[a].alone
        /\ tasks[a].out = "returned"

\* restart() begins startServer only once, after its one stopServer has
\* resolved and its second of waiting is over
StopBeforeStart ==
    \A a \in DOMAIN tasks :
        tasks[a].m = "restart" /\ tasks'[a].starts # tasks[a].starts =>
            /\ tasks[a].stops = 1
            /\ tasks[a].at = "timer"
            /\ tasks[a].starts = 0

\* C22, amended: when the three resource directories are configured at the
\* time restart() looks for them, after the stop, a restart() that has
\* returned has called stopServer once and then
\* startServer once, the stop resolved before the start began, it has set
\* Starting and then Running, and the state is Running when it returns (as
\* long as no other call has been in progress while it ran); a restart()
\* never calls stopServer twice.
ConfiguredRestartReachesRunning ==
    /\ [](\A a \in DOMAIN tasks :
            tasks[a].m = "restart" =>
                /\ tasks[a].stops <= 1
                /\ tasks[a].settings.dirs /\ tasks[a].out = "returned" =>
                       Restarted(a))
    /\ [][StopBeforeStart]_vars

(***************************************************************************)
(* Properties of the state, the context keys and the child processes       *)
(***************************************************************************)

\* C23: at every moment the context key thymelab:isRunning is set exactly
\* when the state is Running and thymelab:isStarting exactly when the state
\* is Starting.
ContextMatchesState ==
    /\ context.isRunning = (currentState = "Running")
    /\ context.isStarting = (currentState = "Starting")

\* nothing is in progress: no call, no callback, no health timer
Quiet == Pending(S) = {} /\ healthCheckInterval = "none"

\* C25: when the state is Running and nothing is in progress that could
\* still change it, ProcessManager holds a child process and that process
\* is alive.
RunningHasProcess ==
    currentState = "Running" /\ Quiet =>
        process # 0 /\ children[process].alive

\* the child processes that are alive
Alive == {c \in DOMAIN children : children[c].alive}

\* this.process is assigned another process while the one it held is alive
Overwrites ==
    /\ process # 0
    /\ process' # 0
    /\ process' # process
    /\ children[process].alive

\* C26: at most one child process is alive at any time, and ProcessManager
\* never replaces its reference to a live process by another process.
AtMostOneProcess ==
    /\ [](Cardinality(Alive) <= 1)
    /\ [][~Overwrites]_vars

\* the error of a startServer that found a process
AlreadyRunning == handleError("Server is already running", "start server")

\* C27: a start() that failed with 'Server is already running', no other
\* start, stop or restart call having been in progress while it ran, has
\* left ProcessManager with its process, alive and with a health timer.
StartWhileRunningKeepsProcess ==
    \A a \in DOMAIN tasks :
        /\ tasks[a].m = "start"
        /\ tasks[a].alone
        /\ tasks[a].rejection = AlreadyRunning
        => /\ process # 0
           /\ children[process].alive
           /\ healthCheckInterval # "none"

(***************************************************************************)
(* Properties of ThymeleafDefinitionProvider.getFiles                      *)
(***************************************************************************)

\* C24: a list getFiles returns from the cache was stored for that template
\* path less than CACHE_TTL milliseconds before the call.
ServedWithinTTL ==
    served.kind = "cached" => served.now - served.stored < CACHE_TTL

(***************************************************************************)
(* Properties of a start() in time                                         *)
(***************************************************************************)

\* a start() is in progress
Starting == \E a \in DOMAIN tasks : tasks[a].m = "start" /\ tasks[a].out = ""

\* C28: a start() in progress settles in the end, and a state of Starting
\* gives way to another state in the end.
StartSettles ==
    /\ Starting ~> ~Starting
    /\ (currentState = "Starting") ~> (currentState # "Starting")

(***************************************************************************)
(* Properties of the state after a stop()                                  *)
(***************************************************************************)

\* the start() and restart() calls made so far
Begun(t) == {a \in DOMAIN t : t[a].m \in {"start", "restart"}}

\* a stop() has returned and the state is Stopped; in this step no start()
\* or restart() is called, and the state is Stopped after it
StaysStopped ==
    /\ \E a \in DOMAIN tasks : tasks[a].m = "stop" /\ tasks[a].out = "returned"
    /\ currentState = "Stopped"
    /\ Begun(tasks') = Begun(tasks)
    => currentState' = "Stopped"

\* C29: once stop() has returned and the state is Stopped, the state stays
\* Stopped as long as no start() or restart() is called: no call that was in
\* progress when stop() ran sets another state later.
StoppedUntilNextCall == [][StaysStopped]_vars

(***************************************************************************)
(* Properties of the recursion of extractVariablesFromExpression           *)
(***************************************************************************)

\* the sites of the calls in progress
Sites == {frames[i].site : i \in DOMAIN frames}

\* a call made for a parameter of a method is in progress inside a call made
\* for an operand of a ternary or an Elvis expression, or the other way round
NestedCall ==
    /\ Len(frames) >= 3
    /\ "method" \in Sites
    /\ Sites \cap {"condition", "truePart", "falsePart", "leftPart", "rightPart"} # {}

\* C30: every call extractVariablesFromExpression makes of itself, for a
\* parameter of a security function or of a method, for the condition or a
\* branch of a ternary expression or for an operand of an Elvis operator, is
\* made on a string strictly shorter than the expression of the call that
\* makes it; so no chain of calls is longer than the expression it began
\* with, plus one.
CallsOnShorter ==
    /\ \A i \in 2..Len(frames) :
           Len(frames[i].expression) < Len(frames[i - 1].expression)
    /\ Len(frames) <= Len(text) + 1

=============================================================================
